---- MODULE Spec2Model ----
(***************************************************************************)
(* Model of the two-layer hash table: the fixed-capacity table             *)
(* (hashtable.c / hashtable.h) and the growable wrapper (malloc_hash.c /   *)
(* malloc_hash.h).                                                         *)
(*                                                                         *)
(* Pointers are records [a |-> address, s |-> index of the string the      *)
(* pointer points to (0 when it does not point to a string)].  Address 0   *)
(* is the null pointer.  Caller-owned strings live at addresses            *)
(* 1..NKeyPtr, strings duplicated by mystrdup live at HeapBase+1.. .       *)
(* Opaque void* values are pointers with s = 0.                            *)
(***************************************************************************)
EXTENDS Integers, Sequences, FiniteSets, TLC

\* ---------------------------------------------------------------- bounds
NStr == 3          \* number of distinct key strings in use
NAlias == 1        \* number of strings the caller holds at two addresses
MaxVal == 2        \* opaque values 1..MaxVal
MaxPoolArg == 3    \* pool_size arguments 0..MaxPoolArg
MaxTableArg == 3   \* table_size arguments -1..MaxTableArg
MaxDel == 1        \* successful deletions in a run
MaxCap == 2        \* mhash_init pool_size arguments 1..MaxCap
MaxInc == 1        \* mhash_init pool_increment arguments 1..MaxInc
MaxRec == 10       \* largest recorded pool_size a resize may produce
MaxStrKeys == 2    \* number of key strings used with the string functions
MaxFree == 0       \* most free nodes of a table the user calls mhash_resize on
\* nodes added by one call of hashtable_add2pool
MaxAdd == 2
\* the call of fcn that returns non-zero is at most this one
MaxStop == 3
\* an int the caller holds, or an uninitialized pointer, is 0..MaxJunk
MaxJunk == 1
\* string copies made by mhash_getstr that the caller holds
MaxCopies == 1
\* width of an int where the doubling loops are run on their own
IntBits == 6

\* ------------------------------------------------------- program constants
HASHTABLE_PARTIAL == 1
HASHTABLE_OK == 0
HASHTABLE_INVARG == -1
HASHTABLE_FULL == -2
HASHTABLE_NOTFOUND == -3
HASHTABLE_DUPL == -4
HASHTABLE_LASTERR == -5
HASH_INIT_VALUE == 0

\* ------------------------------------------------------------ the strings
\* "a", "ba", "b", "aa", "c", "d", "ab" as char codes
Strs == << <<97>>, <<98, 97>>, <<98>>, <<97, 97>>, <<99>>, <<100>>, <<97, 98>> >>
StrIdx == 1..NStr

NKeyPtr == NStr + NAlias
\* the string held at caller address p: addresses above NStr hold a second
\* copy of the last NAlias strings
StrAt(p) == IF p <= NStr THEN p ELSE 2 * NStr + 1 - p

NULL == [a |-> 0, s |-> 0]
\* content of a caller variable that the callee has not written
Stale == [a |-> -1, s |-> 0]
CallerKeys == {[a |-> p, s |-> StrAt(p)] : p \in 1..NKeyPtr}
KeyArgs == CallerKeys \cup {NULL}
Vals == {[a |-> v, s |-> 0] : v \in 1..MaxVal}
\* the strings the caller passes as values: the strings 1..MaxVal, held at
\* addresses of their own
StrVals == {[a |-> NKeyPtr + v, s |-> v] : v \in 1..MaxVal}

\* --------------------------------------------- 32-bit unsigned arithmetic
\* A uint32_t is a pair [hi, lo] of 16-bit halves.
Half == 65536
Word(c) == [hi |-> 0, lo |-> c]
Add(a, b) ==
  [hi |-> (a.hi + b.hi + ((a.lo + b.lo) \div Half)) % Half,
   lo |-> (a.lo + b.lo) % Half]
\* w << n and w >> n for 0 < n < 16
Shl(w, n) ==
  [hi |-> (((w.hi * (2^n)) % Half) + ((w.lo * (2^n)) \div Half)) % Half,
   lo |-> (w.lo * (2^n)) % Half]
Shr(w, n) ==
  [hi |-> w.hi \div (2^n),
   lo |-> (w.lo \div (2^n)) + ((w.hi % (2^n)) * (2^(16 - n)))]
\* x & y and x ^ y for non-negative integers
RECURSIVE BitAnd(_, _)
BitAnd(x, y) ==
  IF x = 0 \/ y = 0 THEN 0
  ELSE (x % 2) * (y % 2) + 2 * BitAnd(x \div 2, y \div 2)
RECURSIVE BitXor(_, _)
BitXor(x, y) ==
  IF x = 0 THEN y
  ELSE IF y = 0 THEN x
  ELSE ((x + y) % 2) + 2 * BitXor(x \div 2, y \div 2)
Xor(a, b) == [hi |-> BitXor(a.hi, b.hi), lo |-> BitXor(a.lo, b.lo)]
\* w & m for a mask 0 <= m < 2^16
AndMask(w, m) == BitAnd(w.lo, m)

\* ------------------------------------------------------------ hashing
RECURSIVE HashLoop(_, _)
HashLoop(key, initval) ==
  IF key = <<>> THEN initval
  ELSE LET h1 == Add(initval, Word(Head(key)))
           h2 == Add(h1, Shl(h1, 10))
           h3 == Xor(h2, Shr(h2, 6))
       IN HashLoop(Tail(key), h3)

hash_function(key, initval) ==
  LET h0 == HashLoop(key, initval)
      h1 == Add(h0, Shl(h0, 3))
      h2 == Xor(h1, Shr(h1, 11))
  IN Add(h2, Shl(h2, 15))

\* the 32-bit hash of every string, computed once
HashVal == [i \in 1..Len(Strs) |-> hash_function(Strs[i], Word(HASH_INIT_VALUE))]

hashtable_hash(H, key) == AndMask(HashVal[key.s], H.table_size - 1)

\* sign of strcmp(a, b) on unsigned chars
RECURSIVE SeqCmp(_, _)
SeqCmp(x, y) ==
  IF x = <<>> THEN (IF y = <<>> THEN 0 ELSE -1)
  ELSE IF y = <<>> THEN 1
  ELSE IF Head(x) < Head(y) THEN -1
  ELSE IF Head(x) > Head(y) THEN 1
  ELSE SeqCmp(Tail(x), Tail(y))
strcmp(k1, k2) == SeqCmp(Strs[k1.s], Strs[k2.s])

is_power_of_2(x) == (x > 0) /\ (BitAnd(x, x - 1) = 0)

\* ------------------------------------------------------------ FixedTable
\* A table value H has the fields of hashtable_t (table, table_size, pool,
\* pool_size) and entry, the hashentry_t array(s) the node pointers 1.. point
\* into.  table is indexed 0..table_size-1; node pointer 0 is null.

\* the object, bin array and pool array before hashtable_init has written them
Uninit == [table |-> << >>, table_size |-> 0, pool |-> 0, pool_size |-> 0,
           entry |-> << >>]

\* mutant: the counter is decremented before it is tested
hashtable_newpair_DecFirst(H, key, value) ==
  IF H.pool_size - 1 < 0 THEN [h |-> [H EXCEPT !.pool_size = @ - 1], newpair |-> 0]
  ELSE LET np == H.pool
       IN [h |-> [H EXCEPT !.pool_size = @ - 1,
                           !.pool = H.entry[np].next,
                           !.entry[np] = [key |-> key, value |-> value, next |-> 0]],
           newpair |-> np]

hashtable_newpair(H, key, value) ==
  IF H.pool_size < 1 THEN [h |-> H, newpair |-> 0]
  ELSE LET np == H.pool
       IN [h |-> [H EXCEPT !.pool_size = @ - 1,
                           !.pool = H.entry[np].next,
                           !.entry[np] = [key |-> key, value |-> value, next |-> 0]],
           newpair |-> np]

\* mutant: the node keeps its link into the chain
return_to_pool_KeepNext(H, e) ==
  [H EXCEPT !.pool = e, !.pool_size = @ + 1]

return_to_pool(H, e) ==
  [H EXCEPT !.entry[e].next = H.pool, !.pool = e, !.pool_size = @ + 1]

\* mutant: the power-of-two test is missing
hashtable_init_NoPow2(H, hp, tp, table_size, pp, pool_size) ==
  IF ~hp \/ ~tp \/ ~pp \/ table_size < 0 THEN [ret |-> HASHTABLE_INVARG, h |-> H]
  ELSE LET n == IF pool_size < 1 THEN 1 ELSE pool_size
       IN [ret |-> HASHTABLE_OK,
           h |-> [table_size |-> table_size,
                  pool_size |-> pool_size,
                  table |-> [i \in 0..(table_size - 1) |-> 0],
                  pool |-> 1,
                  entry |-> [i \in 1..n |->
                              [key |-> NULL, value |-> NULL,
                               next |-> IF i < pool_size THEN i + 1 ELSE 0]]]]

\* mutant: the recorded pool_size is one short
hashtable_init_ShortPool(H, hp, tp, table_size, pp, pool_size) ==
  IF ~hp \/ ~tp \/ ~pp \/ table_size < 0 \/ ~is_power_of_2(table_size)
  THEN [ret |-> HASHTABLE_INVARG, h |-> H]
  ELSE LET n == IF pool_size < 1 THEN 1 ELSE pool_size
       IN [ret |-> HASHTABLE_OK,
           h |-> [table_size |-> table_size,
                  pool_size |-> pool_size - 1,
                  table |-> [i \in 0..(table_size - 1) |-> 0],
                  pool |-> 1,
                  entry |-> [i \in 1..n |->
                              [key |-> NULL, value |-> NULL,
                               next |-> IF i < pool_size THEN i + 1 ELSE 0]]]]

\* hp, tp, pp: the hash, table and pool arguments are non-null.
\* The pool array has pool_size elements (one element when pool_size < 1).
hashtable_init(H, hp, tp, table_size, pp, pool_size) ==
  IF ~hp THEN [ret |-> HASHTABLE_INVARG, h |-> H]
  ELSE IF ~tp THEN [ret |-> HASHTABLE_INVARG, h |-> H]
  ELSE IF ~pp THEN [ret |-> HASHTABLE_INVARG, h |-> H]
  ELSE IF table_size < 0 THEN [ret |-> HASHTABLE_INVARG, h |-> H]
  ELSE IF ~is_power_of_2(table_size) THEN [ret |-> HASHTABLE_INVARG, h |-> H]
  ELSE LET n == IF pool_size < 1 THEN 1 ELSE pool_size
       IN [ret |-> HASHTABLE_OK,
           h |-> [table_size |-> table_size,
                  pool_size |-> pool_size,
                  table |-> [i \in 0..(table_size - 1) |-> 0],
                  pool |-> 1,
                  entry |-> [i \in 1..n |->
                              [key |-> NULL, value |-> NULL,
                               next |-> IF i < pool_size THEN i + 1 ELSE 0]]]]

\* the sorted walk shared by get, getset, set and delex: the values of
\* last and next when the while loop ends
\* mutant: the walk passes every key that differs from the one looked for
RECURSIVE ChainWalk_ToEnd(_, _, _, _)
ChainWalk_ToEnd(H, key, last, next) ==
  IF next # 0 /\ H.entry[next].key # NULL /\ strcmp(key, H.entry[next].key) # 0
  THEN ChainWalk_ToEnd(H, key, next, H.entry[next].next)
  ELSE [last |-> last, next |-> next]

RECURSIVE ChainWalk(_, _, _, _)
ChainWalk(H, key, last, next) ==
  IF next # 0 /\ H.entry[next].key # NULL /\ strcmp(key, H.entry[next].key) > 0
  THEN ChainWalk(H, key, next, H.entry[next].next)
  ELSE [last |-> last, next |-> next]

\* val: the caller's variable *val before the call (NULL pointer: hasval FALSE)
hashtable_get(H, hp, key, hasval, val) ==
  IF ~hp THEN [ret |-> HASHTABLE_INVARG, val |-> val]
  ELSE IF key = NULL THEN [ret |-> HASHTABLE_INVARG, val |-> val]
  ELSE LET bin == hashtable_hash(H, key)
           pair == ChainWalk(H, key, 0, H.table[bin]).next
       IN IF pair = 0 \/ H.entry[pair].key = NULL
             \/ strcmp(key, H.entry[pair].key) # 0
          THEN [ret |-> HASHTABLE_NOTFOUND, val |-> val]
          ELSE [ret |-> HASHTABLE_OK,
                val |-> IF hasval THEN H.entry[pair].value ELSE val]

hashtable_test(H, hp, key) == hashtable_get(H, hp, key, FALSE, Stale).ret

\* mutant: the new pair always becomes the list head
Splice_AlwaysHead(H, bin, last, next, newpair) ==
  [H EXCEPT !.entry[newpair].next = H.table[bin], !.table[bin] = newpair]

\* splice newpair in front of next (list head or after last)
Splice(H, bin, last, next, newpair) ==
  IF next = H.table[bin]
  THEN [H EXCEPT !.entry[newpair].next = next, !.table[bin] = newpair]
  ELSE [H EXCEPT !.entry[newpair].next = next, !.entry[last].next = newpair]

\* mutant: a key that is present has its value overwritten
hashtable_set_Overwrite(H, hp, key, value) ==
  IF ~hp THEN [ret |-> HASHTABLE_INVARG, h |-> H]
  ELSE IF key = NULL THEN [ret |-> HASHTABLE_INVARG, h |-> H]
  ELSE LET bin == hashtable_hash(H, key)
           w == ChainWalk(H, key, 0, H.table[bin])
       IN IF w.next # 0 /\ H.entry[w.next].key # NULL
             /\ strcmp(key, H.entry[w.next].key) = 0
          THEN [ret |-> HASHTABLE_DUPL,
                h |-> [H EXCEPT !.entry[w.next].value = value]]
          ELSE LET np == hashtable_newpair(H, key, value)
               IN IF np.newpair = 0 THEN [ret |-> HASHTABLE_FULL, h |-> np.h]
                  ELSE [ret |-> HASHTABLE_OK,
                        h |-> Splice(np.h, bin, w.last, w.next, np.newpair)]

hashtable_set(H, hp, key, value) ==
  IF ~hp THEN [ret |-> HASHTABLE_INVARG, h |-> H]
  ELSE IF key = NULL THEN [ret |-> HASHTABLE_INVARG, h |-> H]
  ELSE LET bin == hashtable_hash(H, key)
           w == ChainWalk(H, key, 0, H.table[bin])
       IN IF w.next # 0 /\ H.entry[w.next].key # NULL
             /\ strcmp(key, H.entry[w.next].key) = 0
          THEN [ret |-> HASHTABLE_DUPL, h |-> H]
          ELSE LET np == hashtable_newpair(H, key, value)
               IN IF np.newpair = 0 THEN [ret |-> HASHTABLE_FULL, h |-> np.h]
                  ELSE [ret |-> HASHTABLE_OK,
                        h |-> Splice(np.h, bin, w.last, w.next, np.newpair)]

\* mutant: an insert returns PARTIAL also when value_aut is null
hashtable_getset_AlwaysPartial(H, hp, key, value_in, hasout, out) ==
  IF ~hp THEN [ret |-> HASHTABLE_INVARG, h |-> H, out |-> out]
  ELSE IF key = NULL THEN [ret |-> HASHTABLE_INVARG, h |-> H, out |-> out]
  ELSE LET bin == hashtable_hash(H, key)
           w == ChainWalk(H, key, 0, H.table[bin])
       IN IF w.next # 0 /\ H.entry[w.next].key # NULL
             /\ strcmp(key, H.entry[w.next].key) = 0
          THEN [ret |-> HASHTABLE_OK,
                h |-> [H EXCEPT !.entry[w.next].value = value_in],
                out |-> IF hasout THEN H.entry[w.next].value ELSE out]
          ELSE LET np == hashtable_newpair(H, key, value_in)
               IN IF np.newpair = 0
                  THEN [ret |-> HASHTABLE_FULL, h |-> np.h, out |-> out]
                  ELSE [ret |-> HASHTABLE_PARTIAL,
                        h |-> Splice(np.h, bin, w.last, w.next, np.newpair),
                        out |-> IF hasout THEN NULL ELSE out]

\* mutant: the value is overwritten before the previous one is read
hashtable_getset_LateRead(H, hp, key, value_in, hasout, out) ==
  IF ~hp THEN [ret |-> HASHTABLE_INVARG, h |-> H, out |-> out]
  ELSE IF key = NULL THEN [ret |-> HASHTABLE_INVARG, h |-> H, out |-> out]
  ELSE LET bin == hashtable_hash(H, key)
           w == ChainWalk(H, key, 0, H.table[bin])
       IN IF w.next # 0 /\ H.entry[w.next].key # NULL
             /\ strcmp(key, H.entry[w.next].key) = 0
          THEN [ret |-> HASHTABLE_OK,
                h |-> [H EXCEPT !.entry[w.next].value = value_in],
                out |-> IF hasout THEN value_in ELSE out]
          ELSE LET np == hashtable_newpair(H, key, value_in)
               IN IF np.newpair = 0
                  THEN [ret |-> HASHTABLE_FULL, h |-> np.h, out |-> out]
                  ELSE [ret |-> IF hasout THEN HASHTABLE_PARTIAL ELSE HASHTABLE_OK,
                        h |-> Splice(np.h, bin, w.last, w.next, np.newpair),
                        out |-> IF hasout THEN NULL ELSE out]

\* mutant: the free list is tested before the key is looked up
hashtable_getset_FullFirst(H, hp, key, value_in, hasout, out) ==
  IF ~hp THEN [ret |-> HASHTABLE_INVARG, h |-> H, out |-> out]
  ELSE IF key = NULL THEN [ret |-> HASHTABLE_INVARG, h |-> H, out |-> out]
  ELSE IF H.pool = 0 THEN [ret |-> HASHTABLE_FULL, h |-> H, out |-> out]
  ELSE LET bin == hashtable_hash(H, key)
           w == ChainWalk(H, key, 0, H.table[bin])
       IN IF w.next # 0 /\ H.entry[w.next].key # NULL
             /\ strcmp(key, H.entry[w.next].key) = 0
          THEN [ret |-> HASHTABLE_OK,
                h |-> [H EXCEPT !.entry[w.next].value = value_in],
                out |-> IF hasout THEN H.entry[w.next].value ELSE out]
          ELSE LET np == hashtable_newpair(H, key, value_in)
               IN [ret |-> IF hasout THEN HASHTABLE_PARTIAL ELSE HASHTABLE_OK,
                   h |-> Splice(np.h, bin, w.last, w.next, np.newpair),
                   out |-> IF hasout THEN NULL ELSE out]

\* hasout: value_aut is non-null; out: the caller's *value_aut before the call
hashtable_getset(H, hp, key, value_in, hasout, out) ==
  IF ~hp THEN [ret |-> HASHTABLE_INVARG, h |-> H, out |-> out]
  ELSE IF key = NULL THEN [ret |-> HASHTABLE_INVARG, h |-> H, out |-> out]
  ELSE LET bin == hashtable_hash(H, key)
           w == ChainWalk(H, key, 0, H.table[bin])
       IN IF w.next # 0 /\ H.entry[w.next].key # NULL
             /\ strcmp(key, H.entry[w.next].key) = 0
          THEN [ret |-> HASHTABLE_OK,
                h |-> [H EXCEPT !.entry[w.next].value = value_in],
                out |-> IF hasout THEN H.entry[w.next].value ELSE out]
          ELSE LET np == hashtable_newpair(H, key, value_in)
               IN IF np.newpair = 0
                  THEN [ret |-> HASHTABLE_FULL, h |-> np.h, out |-> out]
                  ELSE [ret |-> IF hasout THEN HASHTABLE_PARTIAL ELSE HASHTABLE_OK,
                        h |-> Splice(np.h, bin, w.last, w.next, np.newpair),
                        out |-> IF hasout THEN NULL ELSE out]

\* mutant: *key_out receives key_in instead of the stored key pointer
hashtable_delex_KeyIn(H, hp, key_in, haskey, kout, hasval, val) ==
  IF ~hp THEN [ret |-> -1, h |-> H, kout |-> kout, val |-> val]
  ELSE IF key_in = NULL THEN [ret |-> -1, h |-> H, kout |-> kout, val |-> val]
  ELSE LET bin == hashtable_hash(H, key_in)
           w == ChainWalk(H, key_in, 0, H.table[bin])
           next == w.next
       IN IF next # 0 /\ H.entry[next].key # NULL
             /\ strcmp(key_in, H.entry[next].key) = 0
          THEN [ret |-> HASHTABLE_OK,
                h |-> IF next = H.table[bin]
                      THEN return_to_pool(
                             [H EXCEPT !.table[bin] = H.entry[next].next], next)
                      ELSE return_to_pool(
                             [H EXCEPT !.entry[w.last].next = H.entry[next].next], next),
                kout |-> IF haskey THEN key_in ELSE kout,
                val |-> IF hasval THEN H.entry[next].value ELSE val]
          ELSE [ret |-> HASHTABLE_NOTFOUND, h |-> H, kout |-> kout, val |-> val]

\* haskey, hasval: key_out, value are non-null; kout, val: the caller's
\* *key_out and *value before the call
hashtable_delex(H, hp, key_in, haskey, kout, hasval, val) ==
  IF ~hp THEN [ret |-> -1, h |-> H, kout |-> kout, val |-> val]
  ELSE IF key_in = NULL THEN [ret |-> -1, h |-> H, kout |-> kout, val |-> val]
  ELSE LET bin == hashtable_hash(H, key_in)
           w == ChainWalk(H, key_in, 0, H.table[bin])
           next == w.next
       IN IF next # 0 /\ H.entry[next].key # NULL
             /\ strcmp(key_in, H.entry[next].key) = 0
          THEN [ret |-> HASHTABLE_OK,
                h |-> IF next = H.table[bin]
                      THEN return_to_pool(
                             [H EXCEPT !.table[bin] = H.entry[next].next], next)
                      ELSE return_to_pool(
                             [H EXCEPT !.entry[w.last].next = H.entry[next].next], next),
                kout |-> IF haskey THEN H.entry[next].key ELSE kout,
                val |-> IF hasval THEN H.entry[next].value ELSE val]
          ELSE [ret |-> HASHTABLE_NOTFOUND, h |-> H, kout |-> kout, val |-> val]

\* A result the C code keeps in a local variable is computed once:
\* CHOOSE y \in {F(x) : x \in {e}} : TRUE is F applied to the value of e.

\* RECURSIVE walk of hashtable_copy: the rest of the chain from e, then the
\* bins from i on
RECURSIVE CopyChain(_, _, _)
CopyChain(old, e, new) ==
  IF e = 0 THEN new
  ELSE CHOOSE y \in {CopyChain(old, old.entry[e].next, x) : x \in
         {hashtable_set(new, TRUE, old.entry[e].key, old.entry[e].value).h}} : TRUE

\* mutant: only the head of each chain is copied
RECURSIVE CopyBins_HeadsOnly(_, _, _)
CopyBins_HeadsOnly(old, i, new) ==
  IF i >= old.table_size THEN new
  ELSE CHOOSE y \in {CopyBins_HeadsOnly(old, i + 1, x) : x \in
         {IF old.table[i] = 0 THEN new
          ELSE hashtable_set(new, TRUE, old.entry[old.table[i]].key,
                             old.entry[old.table[i]].value).h}} : TRUE

RECURSIVE CopyBins(_, _, _)
CopyBins(old, i, new) ==
  IF i >= old.table_size THEN new
  ELSE CHOOSE y \in {CopyBins(old, i + 1, x) : x \in
         {CopyChain(old, old.table[i], new)}} : TRUE

\* mutant: the loop over the bins starts at bin 1
hashtable_copy_SkipFirst(old_hash, new_hash) == CopyBins(old_hash, 1, new_hash)

hashtable_copy(old_hash, new_hash) == CopyBins(old_hash, 0, new_hash)

\* hashtable_walk: the loop variables at the next call of fcn, or at the end
\* of the for loop, when the while loop is entered with i and e
RECURSIVE walk_next(_, _, _)
walk_next(H, i, e) ==
  IF e # 0 THEN [pc |-> "call", i |-> i, e |-> e]
  ELSE IF i + 1 < H.table_size THEN walk_next(H, i + 1, H.table[i + 1])
  ELSE [pc |-> "done", i |-> i + 1, e |-> 0]

\* hashtable_walk up to its first call of fcn
walk_start(H) ==
  IF 0 < H.table_size THEN walk_next(H, 0, H.table[0])
  ELSE [pc |-> "done", i |-> 0, e |-> 0]

\* mutant: a non-zero return of fcn ends the walk of the bin only
walk_call_InnerBreak(H, w, rv) ==
  IF rv # 0
  THEN IF w.i + 1 < H.table_size
       THEN walk_next(H, w.i + 1, H.table[w.i + 1])
       ELSE [pc |-> "done", i |-> w.i + 1, e |-> 0]
  ELSE walk_next(H, w.i, H.entry[w.e].next)

\* hashtable_walk after fcn(e) has returned rv
walk_call(H, w, rv) ==
  IF rv # 0 THEN [pc |-> "done", i |-> w.i, e |-> w.e]
  ELSE walk_next(H, w.i, H.entry[w.e].next)

\* mutant: the counter of free nodes is not updated
hashtable_add2pool_NoCount(H, pool_size) ==
  LET base == Len(H.entry)
      n == IF pool_size < 1 THEN 1 ELSE pool_size
  IN [H EXCEPT !.entry = H.entry \o
                 [i \in 1..n |-> [key |-> NULL, value |-> NULL,
                                  next |-> IF i < pool_size THEN base + i + 1
                                           ELSE H.pool]],
               !.pool = base + 1]

\* the array pool has pool_size elements (one element when pool_size < 1);
\* its nodes follow the nodes the table already has
hashtable_add2pool(H, pool_size) ==
  LET base == Len(H.entry)
      n == IF pool_size < 1 THEN 1 ELSE pool_size
  IN [H EXCEPT !.entry = H.entry \o
                 [i \in 1..n |-> [key |-> NULL, value |-> NULL,
                                  next |-> IF i < pool_size THEN base + i + 1
                                           ELSE H.pool]],
               !.pool = base + 1,
               !.pool_size = @ + pool_size]

\* ---------------------------------------------------------- GrowableTable
MHASH_OK == HASHTABLE_OK
MHASH_INVARG == HASHTABLE_INVARG
MHASH_NOTFOUND == HASHTABLE_NOTFOUND
MHASH_NOMEM == HASHTABLE_LASTERR
MHASH_DUPL == HASHTABLE_LASTERR + 1

DEFAULT_POOL_SIZE == 2048
DEFAULT_POOL_INCREMENT == 2048
MAX_LOAD_FACTOR == 4

\* address below the first block malloc hands out for a string, and below
\* the first block it hands out for a bin array or a pool array
HeapBase == 100
ArrBase == 200
\* in the heap: free was called with a pointer that is not a live block (a
\* second free of a block, or a pointer into the middle of a block)
InvalidFree == -1
\* a pointer to a pool node other than the first of its array
Interior == -2

\* A malloc_hash_t value M has the fields hash, pool_size, pool_increment,
\* and table_ptr and pool_base: the addresses malloc returned for the bin
\* array hash.table and for the pool array. The heap is the set of addresses
\* of the live blocks. oom is the ordinal of the malloc call of the running
\* operation that returns 0 (0: none fails); n is the number of malloc calls
\* made so far.

UninitM == [hash |-> Uninit, pool_size |-> 0, pool_increment |-> 0,
            table_ptr |-> 0, pool_base |-> 0]

\* malloc returns the lowest address above base that is not in use
FreshAt(base, heap) ==
  CHOOSE a \in (base + 1)..(base + Cardinality(heap) + 1) :
    /\ a \notin heap
    /\ \A b \in (base + 1)..(a - 1) : b \in heap

FreshAddr(heap) == FreshAt(HeapBase, heap)

\* mutant: the pointer of the caller is returned, nothing is allocated
mystrdup_NoCopy(heap, str, fail) ==
  IF str = NULL THEN [p |-> NULL, heap |-> heap]
  ELSE IF fail THEN [p |-> NULL, heap |-> heap]
  ELSE [p |-> str, heap |-> heap]

mystrdup(heap, str, fail) ==
  IF str = NULL THEN [p |-> NULL, heap |-> heap]
  ELSE IF fail THEN [p |-> NULL, heap |-> heap]
  ELSE LET a == FreshAddr(heap)
       IN [p |-> [a |-> a, s |-> str.s], heap |-> heap \cup {a}]

\* free of the block at address a; free(0) does nothing
free_at(heap, a) ==
  IF a = 0 THEN heap
  ELSE IF a \in heap THEN heap \ {a}
  ELSE heap \cup {InvalidFree}

\* free(p)
free(heap, p) == free_at(heap, p.a)

\* the value of hash.pool as an address: the head of the free list
PoolPtr(M) ==
  IF M.hash.pool = 0 THEN 0
  ELSE IF M.hash.pool = 1 THEN M.pool_base
  ELSE Interior

\* the int of IntBits bits that holds x: overflow wraps around
IntMax == 2^(IntBits - 1) - 1
WrapInt(x) == ((x + 2^(IntBits - 1)) % 2^IntBits) - 2^(IntBits - 1)

\* table_size <<= 1
ShiftLeft1(table_size) == WrapInt(2 * table_size)

\* the test of the loop: table_size < pool_size
LoopTest(table_size, pool_size) == table_size < pool_size

\* mhash_resize: if(pool_size > MAX_LOAD_FACTOR * table_size)
LoadTest(table_size, pool_size) ==
  pool_size > WrapInt(MAX_LOAD_FACTOR * table_size)

\* while(table_size < pool_size) table_size <<= 1
RECURSIVE DoubleUpTo(_, _)
DoubleUpTo(table_size, pool_size) ==
  IF table_size < pool_size THEN DoubleUpTo(table_size * 2, pool_size)
  ELSE table_size

\* mutant: a pool_increment of 0 is recorded as it is
mhash_init_NoDefault(M, heap, hp, pool_size, pool_increment, oom, n) ==
  IF ~hp THEN [ret |-> MHASH_INVARG, mh |-> M, heap |-> heap]
  ELSE LET ps == IF pool_size = 0 THEN DEFAULT_POOL_SIZE ELSE pool_size
           pi == pool_increment
           table_size == DoubleUpTo(1, ps)
           t == FreshAt(ArrBase, heap)
           p == FreshAt(ArrBase, heap \cup {t})
       IN IF oom = n + 1 THEN [ret |-> MHASH_NOMEM, mh |-> M, heap |-> heap]
          ELSE IF oom = n + 2
          THEN [ret |-> MHASH_NOMEM, mh |-> M, heap |-> free_at(heap \cup {t}, t)]
          ELSE [ret |-> MHASH_OK,
                mh |-> [hash |-> hashtable_init(M.hash, TRUE, TRUE, table_size,
                                                TRUE, ps).h,
                        pool_size |-> ps,
                        pool_increment |-> pi,
                        table_ptr |-> t,
                        pool_base |-> p],
                heap |-> heap \cup {t, p}]

\* mutant: the bin array is not freed when the pool array cannot be had
mhash_init_KeepTable(M, heap, hp, pool_size, pool_increment, oom, n) ==
  IF ~hp THEN [ret |-> MHASH_INVARG, mh |-> M, heap |-> heap]
  ELSE LET ps == IF pool_size = 0 THEN DEFAULT_POOL_SIZE ELSE pool_size
           pi == IF pool_increment = 0 THEN DEFAULT_POOL_INCREMENT ELSE pool_increment
           table_size == DoubleUpTo(1, ps)
           t == FreshAt(ArrBase, heap)
           p == FreshAt(ArrBase, heap \cup {t})
       IN IF oom = n + 1 THEN [ret |-> MHASH_NOMEM, mh |-> M, heap |-> heap]
          ELSE IF oom = n + 2
          THEN [ret |-> MHASH_NOMEM, mh |-> M, heap |-> heap \cup {t}]
          ELSE [ret |-> MHASH_OK,
                mh |-> [hash |-> hashtable_init(M.hash, TRUE, TRUE, table_size,
                                                TRUE, ps).h,
                        pool_size |-> ps,
                        pool_increment |-> pi,
                        table_ptr |-> t,
                        pool_base |-> p],
                heap |-> heap \cup {t, p}]

mhash_init(M, heap, hp, pool_size, pool_increment, oom, n) ==
  IF ~hp THEN [ret |-> MHASH_INVARG, mh |-> M, heap |-> heap]
  ELSE LET ps == IF pool_size = 0 THEN DEFAULT_POOL_SIZE ELSE pool_size
           pi == IF pool_increment = 0 THEN DEFAULT_POOL_INCREMENT ELSE pool_increment
           table_size == DoubleUpTo(1, ps)
           t == FreshAt(ArrBase, heap)
           p == FreshAt(ArrBase, heap \cup {t})
       IN IF oom = n + 1 THEN [ret |-> MHASH_NOMEM, mh |-> M, heap |-> heap]
          ELSE IF oom = n + 2
          THEN [ret |-> MHASH_NOMEM, mh |-> M, heap |-> free_at(heap \cup {t}, t)]
          ELSE [ret |-> MHASH_OK,
                mh |-> [hash |-> hashtable_init(M.hash, TRUE, TRUE, table_size,
                                                TRUE, ps).h,
                        pool_size |-> ps,
                        pool_increment |-> pi,
                        table_ptr |-> t,
                        pool_base |-> p],
                heap |-> heap \cup {t, p}]

\* mhash_resize after hashtable_copy has filled table th: the new struct is
\* copied to the old one
resize_assign(M, pool_size, table_size, t, th) ==
  [ret |-> 0,
   mh |-> [pool_size |-> pool_size,
           pool_increment |-> M.pool_increment,
           hash |-> [table_size |-> table_size,
                     pool_size |-> th.pool_size,
                     pool |-> th.pool,
                     table |-> th.table,
                     entry |-> th.entry],
           table_ptr |-> t.mh.table_ptr,
           pool_base |-> t.mh.pool_base],
   \* free(hashtable->hash.table); free(hashtable->hash.pool);
   heap |-> free_at(free_at(t.heap, M.table_ptr), PoolPtr(M))]

\* mutant: a resize whose mhash_init failed empties the bins
resize_copy_ClearOnFail(M, pool_size, table_size, t) ==
  IF t.ret # 0
  THEN [ret |-> t.ret,
        mh |-> [M EXCEPT !.hash.table = [b \in DOMAIN M.hash.table |-> 0]],
        heap |-> t.heap]
  ELSE CHOOSE y \in {resize_assign(M, pool_size, table_size, t, x) : x \in
         {hashtable_copy(M.hash, t.mh.hash)}} : TRUE

\* mhash_resize after mhash_init of the new object has returned t
resize_copy(M, pool_size, table_size, t) ==
  IF t.ret # 0 THEN [ret |-> t.ret, mh |-> M, heap |-> t.heap]
  ELSE CHOOSE y \in {resize_assign(M, pool_size, table_size, t, x) : x \in
         {hashtable_copy(M.hash, t.mh.hash)}} : TRUE

\* mutant: the table size follows the pool size at every resize
resize_table_size_Always(M, pool_size) ==
  DoubleUpTo(M.hash.table_size, pool_size)

\* table size is adjusted only if the load factor exceeds MAX_LOAD_FACTOR
resize_table_size(M, pool_size) ==
  IF pool_size > MAX_LOAD_FACTOR * M.hash.table_size
  THEN DoubleUpTo(M.hash.table_size, pool_size)
  ELSE M.hash.table_size

\* mhash_resize with pool_size and table_size computed
resize_sized(M, heap, pool_size, table_size, oom, n) ==
  \* mhash_init(&t, table_size, pool_size)
  CHOOSE y \in {resize_copy(M, pool_size, table_size, x) : x \in
    {mhash_init(UninitM, heap, TRUE, table_size, pool_size, oom, n)}} : TRUE

\* mutant: the resize succeeds without growing anything
mhash_resize_Noop(M, heap, oom, n) ==
  [ret |-> 0, mh |-> M, heap |-> heap]

mhash_resize(M, heap, oom, n) ==
  IF M.hash.pool_size < DEFAULT_POOL_SIZE
  THEN resize_sized(M, heap, M.pool_size + M.pool_increment,
                    resize_table_size(M, M.pool_size + M.pool_increment),
                    oom, n)
  ELSE [ret |-> 0, mh |-> M, heap |-> heap]

mhash_getptr(M, hp, key, hasval, val) ==
  IF ~hp THEN [ret |-> MHASH_INVARG, val |-> val]
  ELSE hashtable_get(M.hash, TRUE, key, hasval, val)

\* (int) p: the low 32 bits of the pointer, which for the addresses used
\* here (all below 2^31) is the address itself; an int points to no string
IntOf(p) == [a |-> p.a, s |-> 0]

\* p: the content of the uninitialized local p, which hashtable_get leaves
\* as it is when it fails
mhash_getint(M, hp, key, hasval, val, p) ==
  IF ~hp THEN [ret |-> MHASH_INVARG, val |-> val]
  ELSE LET r == hashtable_get(M.hash, TRUE, key, TRUE, p)
       IN [ret |-> r.ret, val |-> IF hasval THEN IntOf(r.val) ELSE val]

\* mhash_getstr after mystrdup(p) has returned d
getstr_dup(heap, val, d) ==
  IF d.p = NULL THEN [ret |-> MHASH_NOMEM, val |-> val, heap |-> heap]
  ELSE [ret |-> MHASH_OK, val |-> d.p, heap |-> d.heap]

\* mhash_getstr after hashtable_get has returned r
getstr_get(heap, hasval, val, oom, r) ==
  IF r.ret < 0 THEN [ret |-> r.ret, val |-> val, heap |-> heap]
  ELSE IF hasval
  THEN CHOOSE y \in {getstr_dup(heap, val, x) : x \in
         {mystrdup(heap, r.val, oom = 1)}} : TRUE
  ELSE [ret |-> MHASH_OK, val |-> val, heap |-> heap]

mhash_getstr(M, heap, hp, key, hasval, val, oom) ==
  IF ~hp THEN [ret |-> MHASH_INVARG, val |-> val, heap |-> heap]
  ELSE CHOOSE y \in {getstr_get(heap, hasval, val, oom, x) : x \in
         {hashtable_get(M.hash, TRUE, key, TRUE, Stale)}} : TRUE

\* the second hashtable_set of the four insert functions has returned r2
\* free(k), or free(k), free(v): blocks holds the pointers
RECURSIVE free_all(_, _)
free_all(heap, blocks) ==
  IF blocks = << >> THEN heap
  ELSE free_all(free(heap, Head(blocks)), Tail(blocks))

\* mutant: a failed retry frees the copies twice
retry_done_FreeTwice(rz, blocks, r2) ==
  [ret |-> r2.ret,
   mh |-> [rz.mh EXCEPT !.hash = r2.h],
   heap |-> IF r2.ret # 0 THEN free_all(free_all(rz.heap, blocks), blocks)
            ELSE rz.heap]

\* the second hashtable_set of the four insert functions has returned r2
retry_done(rz, blocks, r2) ==
  [ret |-> r2.ret,
   mh |-> [rz.mh EXCEPT !.hash = r2.h],
   heap |-> IF r2.ret # 0 THEN free_all(rz.heap, blocks) ELSE rz.heap]

\* mhash_resize has returned rz
retry_set(rz, k, v, blocks) ==
  IF rz.ret # 0
  THEN [ret |-> rz.ret, mh |-> rz.mh, heap |-> free_all(rz.heap, blocks)]
  ELSE CHOOSE y \in {retry_done(rz, blocks, x) : x \in
         {hashtable_set(rz.mh.hash, TRUE, k, v)}} : TRUE

\* the branch taken on HASHTABLE_FULL by the four insert functions: resize,
\* then hashtable_set once more; blocks are the copies freed on failure
ResizeRetry(M, heap, k, v, blocks, oom, n) ==
  CHOOSE y \in {retry_set(x, k, v, blocks) : x \in
    {mhash_resize(M, heap, oom, n)}} : TRUE

\* mhash_setptr after hashtable_set has returned r
setptr_set(M, kd, value, oom, r) ==
  IF r.ret = HASHTABLE_DUPL
  THEN [ret |-> r.ret, mh |-> [M EXCEPT !.hash = r.h],
        heap |-> free(kd.heap, kd.p)]
  ELSE IF r.ret = HASHTABLE_FULL
  THEN ResizeRetry([M EXCEPT !.hash = r.h], kd.heap, kd.p, value, <<kd.p>>,
                   oom, 1)
  ELSE IF r.ret # 0
  THEN [ret |-> r.ret, mh |-> [M EXCEPT !.hash = r.h],
        heap |-> free(kd.heap, kd.p)]
  ELSE [ret |-> r.ret, mh |-> [M EXCEPT !.hash = r.h], heap |-> kd.heap]

\* mhash_setptr after mystrdup(key) has returned kd
setptr_dup(M, heap, value, oom, kd) ==
  IF kd.p = NULL THEN [ret |-> MHASH_NOMEM, mh |-> M, heap |-> heap]
  ELSE CHOOSE y \in {setptr_set(M, kd, value, oom, x) : x \in
         {hashtable_set(M.hash, TRUE, kd.p, value)}} : TRUE

mhash_setptr(M, heap, hp, key, value, oom) ==
  IF ~hp THEN [ret |-> MHASH_INVARG, mh |-> M, heap |-> heap]
  ELSE IF key = NULL THEN [ret |-> MHASH_INVARG, mh |-> M, heap |-> heap]
  ELSE CHOOSE y \in {setptr_dup(M, heap, value, oom, x) : x \in
         {mystrdup(heap, key, oom = 1)}} : TRUE

replaceptr_set_DropTable(M, kd, value, oom, n, r) ==
  IF r.ret = HASHTABLE_FULL
  THEN ResizeRetry([M EXCEPT !.hash = r.h], kd.heap, kd.p, value, <<kd.p>>,
                   oom, n)
  ELSE IF r.ret # 0
  THEN [ret |-> r.ret, mh |-> [M EXCEPT !.hash = r.h],
        heap |-> free(kd.heap, kd.p)]
  ELSE [ret |-> r.ret, mh |-> M, heap |-> kd.heap]

\* mhash_replaceptr after hashtable_getset has returned r; n is the number
\* of malloc calls made
replaceptr_set(M, kd, value, oom, n, r) ==
  IF r.ret = HASHTABLE_FULL
  THEN ResizeRetry([M EXCEPT !.hash = r.h], kd.heap, kd.p, value, <<kd.p>>,
                   oom, n)
  ELSE IF r.ret # 0
  THEN [ret |-> r.ret, mh |-> [M EXCEPT !.hash = r.h],
        heap |-> free(kd.heap, kd.p)]
  ELSE [ret |-> r.ret, mh |-> [M EXCEPT !.hash = r.h], heap |-> kd.heap]

\* mhash_replaceptr with k = kd.p: the caller's key or its copy
replaceptr_dup(M, heap, value, oom, n, kd) ==
  IF kd.p = NULL THEN [ret |-> MHASH_NOMEM, mh |-> M, heap |-> heap]
  ELSE CHOOSE y \in {replaceptr_set(M, kd, value, oom, n, x) : x \in
         {hashtable_getset(M.hash, TRUE, kd.p, value, FALSE, Stale)}} : TRUE

\* mhash_replaceptr after hashtable_test has returned t
replaceptr_test(M, heap, key, value, oom, t) ==
  IF t = HASHTABLE_INVARG
  THEN [ret |-> MHASH_INVARG, mh |-> M, heap |-> heap]
  ELSE CHOOSE y \in
         {replaceptr_dup(M, heap, value, oom,
                         IF t = HASHTABLE_NOTFOUND THEN 1 ELSE 0, x) : x \in
            {IF t = HASHTABLE_NOTFOUND
             THEN mystrdup(heap, key, oom = 1)
             ELSE [p |-> key, heap |-> heap]}} : TRUE

mhash_replaceptr(M, heap, hp, key, value, oom) ==
  IF ~hp THEN [ret |-> MHASH_INVARG, mh |-> M, heap |-> heap]
  ELSE IF key = NULL THEN [ret |-> MHASH_INVARG, mh |-> M, heap |-> heap]
  ELSE CHOOSE y \in {replaceptr_test(M, heap, key, value, oom, x) : x \in
         {hashtable_test(M.hash, TRUE, key)}} : TRUE

\* mhash_setstr after hashtable_set has returned r
setstr_set(M, kd, vd, oom, r) ==
  IF r.ret = HASHTABLE_DUPL
  THEN [ret |-> r.ret, mh |-> [M EXCEPT !.hash = r.h],
        heap |-> free(free(vd.heap, kd.p), vd.p)]
  ELSE IF r.ret = HASHTABLE_FULL
  THEN ResizeRetry([M EXCEPT !.hash = r.h], vd.heap, kd.p, vd.p,
                   <<kd.p, vd.p>>, oom, 2)
  ELSE IF r.ret # 0
  THEN [ret |-> r.ret, mh |-> [M EXCEPT !.hash = r.h],
        heap |-> free(free(vd.heap, kd.p), vd.p)]
  ELSE [ret |-> r.ret, mh |-> [M EXCEPT !.hash = r.h], heap |-> vd.heap]

\* mhash_setstr after mystrdup(value) has returned vd
setstr_dupval(M, kd, oom, vd) ==
  IF vd.p = NULL
  THEN [ret |-> MHASH_NOMEM, mh |-> M, heap |-> free(kd.heap, kd.p)]
  ELSE CHOOSE y \in {setstr_set(M, kd, vd, oom, x) : x \in
         {hashtable_set(M.hash, TRUE, kd.p, vd.p)}} : TRUE

\* mhash_setstr after mystrdup(key) has returned kd
setstr_dup(M, heap, value, oom, kd) ==
  IF kd.p = NULL THEN [ret |-> MHASH_NOMEM, mh |-> M, heap |-> heap]
  ELSE CHOOSE y \in {setstr_dupval(M, kd, oom, x) : x \in
         {mystrdup(kd.heap, value, oom = 2)}} : TRUE

mhash_setstr(M, heap, hp, key, value, oom) ==
  IF ~hp THEN [ret |-> MHASH_INVARG, mh |-> M, heap |-> heap]
  ELSE IF key = NULL THEN [ret |-> MHASH_INVARG, mh |-> M, heap |-> heap]
  ELSE IF value = NULL THEN [ret |-> MHASH_INVARG, mh |-> M, heap |-> heap]
  ELSE CHOOSE y \in {setstr_dup(M, heap, value, oom, x) : x \in
         {mystrdup(heap, key, oom = 1)}} : TRUE

replacestr_set_FreeNew(M, kd, vd, oom, r) ==
  IF r.ret = HASHTABLE_PARTIAL
  THEN [ret |-> MHASH_OK, mh |-> [M EXCEPT !.hash = r.h], heap |-> vd.heap]
  ELSE IF r.ret = HASHTABLE_OK
  THEN [ret |-> r.ret, mh |-> [M EXCEPT !.hash = r.h],
        heap |-> free(free(vd.heap, kd.p), vd.p)]
  ELSE IF r.ret = HASHTABLE_FULL
  THEN ResizeRetry([M EXCEPT !.hash = r.h], vd.heap, kd.p, vd.p,
                   <<kd.p, vd.p>>, oom, 2)
  ELSE [ret |-> r.ret, mh |-> [M EXCEPT !.hash = r.h],
        heap |-> free(free(vd.heap, kd.p), vd.p)]

\* mhash_replacestr after hashtable_getset has returned r, with oldv = r.out
replacestr_set(M, kd, vd, oom, r) ==
  IF r.ret = HASHTABLE_PARTIAL
  THEN [ret |-> MHASH_OK, mh |-> [M EXCEPT !.hash = r.h], heap |-> vd.heap]
  ELSE IF r.ret = HASHTABLE_OK
  THEN [ret |-> r.ret, mh |-> [M EXCEPT !.hash = r.h],
        heap |-> free(free(vd.heap, kd.p), r.out)]
  ELSE IF r.ret = HASHTABLE_FULL
  THEN ResizeRetry([M EXCEPT !.hash = r.h], vd.heap, kd.p, vd.p,
                   <<kd.p, vd.p>>, oom, 2)
  ELSE [ret |-> r.ret, mh |-> [M EXCEPT !.hash = r.h],
        heap |-> free(free(vd.heap, kd.p), vd.p)]

\* mhash_replacestr after mystrdup(value) has returned vd
replacestr_dupval(M, kd, oom, vd) ==
  IF vd.p = NULL
  THEN [ret |-> MHASH_NOMEM, mh |-> M, heap |-> free(kd.heap, kd.p)]
  ELSE CHOOSE y \in {replacestr_set(M, kd, vd, oom, x) : x \in
         {hashtable_getset(M.hash, TRUE, kd.p, vd.p, TRUE, Stale)}} : TRUE

\* mhash_replacestr after mystrdup(key) has returned kd
replacestr_dup(M, heap, value, oom, kd) ==
  IF kd.p = NULL THEN [ret |-> MHASH_NOMEM, mh |-> M, heap |-> heap]
  ELSE CHOOSE y \in {replacestr_dupval(M, kd, oom, x) : x \in
         {mystrdup(kd.heap, value, oom = 2)}} : TRUE

mhash_replacestr(M, heap, hp, key, value, oom) ==
  IF ~hp THEN [ret |-> MHASH_INVARG, mh |-> M, heap |-> heap]
  ELSE IF key = NULL THEN [ret |-> MHASH_INVARG, mh |-> M, heap |-> heap]
  ELSE IF value = NULL THEN [ret |-> MHASH_INVARG, mh |-> M, heap |-> heap]
  ELSE CHOOSE y \in {replacestr_dup(M, heap, value, oom, x) : x \in
         {mystrdup(heap, key, oom = 1)}} : TRUE

\* mhash_del after hashtable_delex has returned r
del_free_AlwaysVal(M, heap, deallocate_val, r) ==
  IF r.ret # 0 THEN [ret |-> r.ret, mh |-> M, heap |-> heap]
  ELSE [ret |-> MHASH_OK,
        mh |-> [M EXCEPT !.hash = r.h],
        heap |-> free(free(heap, r.kout), r.val)]

del_free(M, heap, deallocate_val, r) ==
  IF r.ret # 0 THEN [ret |-> r.ret, mh |-> M, heap |-> heap]
  ELSE [ret |-> MHASH_OK,
        mh |-> [M EXCEPT !.hash = r.h],
        heap |-> IF deallocate_val
                 THEN free(free(heap, r.kout), r.val)
                 ELSE free(heap, r.kout)]

mhash_del(M, heap, hp, key, deallocate_val) ==
  IF ~hp THEN [ret |-> MHASH_INVARG, mh |-> M, heap |-> heap]
  ELSE IF key = NULL THEN [ret |-> MHASH_INVARG, mh |-> M, heap |-> heap]
  ELSE CHOOSE y \in {del_free(M, heap, deallocate_val, x) : x \in
         {hashtable_delex(M.hash, TRUE, key, TRUE, Stale, TRUE, Stale)}} : TRUE

\* ----------------------------------------------------------------- state
VARIABLES
  hashtable,  \* the FixedTable: hashtable_t object, bin array, pool array(s)
  ready,      \* the caller has seen hashtable_init return HASHTABLE_OK
  res,        \* the last call: operation, arguments, return code, outputs
  amap,       \* history: string |-> (key pointer, value) as the return codes
              \* of the calls so far say it should be
  given,      \* history: number of pool nodes handed to the table
  ndel,       \* history: number of successful deletions
  mhash,      \* the GrowableTable: malloc_hash_t object with its arrays
  heap,       \* addresses of the live blocks made by mystrdup
  walk,       \* hashtable_walk in progress: loop variables, the entries
              \* fcn was called with, the call at which fcn returns non-zero
  new_hash,   \* the destination table of hashtable_copy
  loop        \* a doubling loop of mhash_init or mhash_resize in progress:
              \* its table_size and pool_size as ints of IntBits bits

vars ==
  <<hashtable, ready, res, amap, given, ndel, mhash, heap, walk, new_hash,
    loop>>
gvars == <<mhash, heap>>
uvars == <<walk, new_hash, loop>>

LoopIdle == [pc |-> "idle", fn |-> "none", table_size |-> 0, pool_size |-> 0]

WalkIdle == [pc |-> "idle", i |-> 0, e |-> 0, calls |-> << >>, stop |-> 0]

Absent == [key |-> NULL, value |-> NULL]
\* flag: the optional output pointer(s) are non-null (for init: hash, table and
\* pool are all non-null); n: the integer argument (for init: table_size)
\* oom: the ordinal of the malloc call that failed (0: none)
NoCall == [op |-> "none", key |-> NULL, value |-> NULL, ret |-> 0,
           val |-> Stale, kout |-> Stale, flag |-> FALSE, n |-> 0, oom |-> 0]
Call(op, key, value, ret, val, kout, flag, n) ==
  [op |-> op, key |-> key, value |-> value, ret |-> ret,
   val |-> val, kout |-> kout, flag |-> flag, n |-> n, oom |-> 0]
\* a GrowableTable call: flag says the table argument is non-null
MCall(op, key, value, ret, val, hp, n, oom) ==
  [op |-> op, key |-> key, value |-> value, ret |-> ret,
   val |-> val, kout |-> Stale, flag |-> hp, n |-> n, oom |-> oom]

Present(m) == {s \in StrIdx : m[s] # Absent}

\* the mapping after a successful insert of (key, value): a present key keeps
\* its stored key pointer
Upsert(m, key, value) ==
  [m EXCEPT ![key.s] = [key |-> IF @ = Absent THEN key ELSE @.key,
                        value |-> value]]

\* ------------------------------------------------------ FixedTable actions
FixedInit ==
  /\ hashtable = Uninit
  /\ ready = FALSE
  /\ res = NoCall
  /\ amap = [s \in StrIdx |-> Absent]
  /\ given = 0
  /\ ndel = 0
  /\ mhash = UninitM
  /\ heap = {}
  /\ walk = WalkIdle
  /\ new_hash = Uninit
  /\ loop = LoopIdle

\* hashtable_init on the caller's object and arrays, with any arguments
DoInit ==
  /\ ~ready
  /\ \E hp \in BOOLEAN, tp \in BOOLEAN, pp \in BOOLEAN,
        table_size \in -1..MaxTableArg, pool_size \in 0..MaxPoolArg :
       LET r == hashtable_init(hashtable, hp, tp, table_size, pp, pool_size)
       IN /\ hashtable' = r.h
          /\ ready' = (r.ret = HASHTABLE_OK)
          /\ res' = Call("init", NULL, NULL, r.ret, Stale, Stale,
                         hp /\ tp /\ pp, table_size)
          /\ given' = IF r.ret = HASHTABLE_OK THEN pool_size ELSE given
          /\ UNCHANGED <<amap, ndel, gvars, uvars>>

DoSet ==
  /\ ready
  /\ \E key \in KeyArgs, value \in Vals :
       LET r == hashtable_set(hashtable, TRUE, key, value)
       IN /\ hashtable' = r.h
          /\ res' = Call("set", key, value, r.ret, Stale, Stale, FALSE, 0)
          /\ amap' = IF r.ret = HASHTABLE_OK
                     THEN [amap EXCEPT ![key.s] = [key |-> key, value |-> value]]
                     ELSE amap
          /\ UNCHANGED <<ready, given, ndel, gvars, uvars>>

DoGetset ==
  /\ ready
  /\ \E key \in KeyArgs, value \in Vals, hasout \in BOOLEAN :
       LET r == hashtable_getset(hashtable, TRUE, key, value, hasout, Stale)
       IN /\ hashtable' = r.h
          /\ res' = Call("getset", key, value, r.ret, r.out, Stale, hasout, 0)
          /\ amap' = IF r.ret \in {HASHTABLE_OK, HASHTABLE_PARTIAL}
                     THEN Upsert(amap, key, value)
                     ELSE amap
          /\ UNCHANGED <<ready, given, ndel, gvars, uvars>>

DoGet ==
  /\ ready
  /\ \E key \in KeyArgs :
       LET r == hashtable_get(hashtable, TRUE, key, TRUE, Stale)
       IN /\ res' = Call("get", key, NULL, r.ret, r.val, Stale, TRUE, 0)
          /\ UNCHANGED <<hashtable, ready, amap, given, ndel, gvars, uvars>>

DoDelex ==
  /\ ready
  /\ \E key \in KeyArgs :
       LET r == hashtable_delex(hashtable, TRUE, key, TRUE, Stale, TRUE, Stale)
       IN /\ r.ret = HASHTABLE_OK => ndel < MaxDel
          /\ hashtable' = r.h
          /\ res' = Call("delex", key, NULL, r.ret, r.val, r.kout, TRUE, 0)
          /\ amap' = IF r.ret = HASHTABLE_OK
                     THEN [amap EXCEPT ![key.s] = Absent]
                     ELSE amap
          /\ ndel' = IF r.ret = HASHTABLE_OK THEN ndel + 1 ELSE ndel
          /\ UNCHANGED <<ready, given, gvars, uvars>>

\* hashtable_getset called with a null hashtable and a null value_aut
DoGetsetNull ==
  /\ ready
  /\ \E key \in KeyArgs, value \in Vals :
       LET r == hashtable_getset(hashtable, FALSE, key, value, FALSE, Stale)
       IN /\ hashtable' = r.h
          /\ res' = Call("getsetnull", key, value, r.ret, r.out, Stale, FALSE, 0)
          /\ UNCHANGED <<ready, amap, given, ndel, gvars, uvars>>

FixedNext ==
  DoInit \/ DoSet \/ DoGetset \/ DoGetsetNull \/ DoGet \/ DoDelex

Spec == FixedInit /\ [][FixedNext]_vars

\* --------------------------------------------------- GrowableTable actions
GrowInit ==
  /\ mhash = UninitM
  /\ heap = {}
  /\ hashtable = Uninit
  /\ ready = FALSE
  /\ res = NoCall
  /\ amap = [s \in StrIdx |-> Absent]
  /\ given = 0
  /\ ndel = 0
  /\ walk = WalkIdle
  /\ new_hash = Uninit
  /\ loop = LoopIdle

\* 1 when the call has replaced the arrays of the table, else 0
Resized(M) == IF M.pool_size # mhash.pool_size THEN 1 ELSE 0

\* a failure ordinal is drawn only when that malloc call is reached
OomDrawn(oom, ret) == oom = 0 \/ ret = MHASH_NOMEM

\* the keys the caller passes to the pointer functions and to the string
\* functions of the GrowableTable
MKeyArgs == {k \in KeyArgs : k.a <= NStr}
SKeyArgs == {k \in KeyArgs : k.a <= MaxStrKeys}
\* a call with a null table is made with the first key or a null key, and
\* with the first value
NullTable(hp, key, value) ==
  hp \/ (key.a <= 1 /\ (value = NULL \/ value.s = 1 \/ value.a = 1))

\* mhash_init on the caller's object, with a capacity from caps and an
\* increment from incs; the record of the call holds pool_increment as value
MInit(caps, incs) ==
  /\ ~ready
  /\ \E hp \in BOOLEAN, c \in caps, g \in incs, oom \in 0..2 :
       \E r \in {mhash_init(mhash, heap, hp, c, g, oom, 0)} :
          /\ OomDrawn(oom, r.ret)
          /\ mhash' = r.mh
          /\ ready' = (r.ret = MHASH_OK)
          /\ given' = IF r.ret = MHASH_OK THEN r.mh.hash.pool_size ELSE given
          /\ heap' = r.heap
          /\ res' = MCall("minit", NULL, [a |-> g, s |-> 0], r.ret, Stale, hp,
                          c, oom)
          /\ UNCHANGED <<uvars, hashtable, amap, ndel>>

DoMInit == MInit(1..MaxCap, 1..MaxInc)
DoMInitStr == MInit(1..(MaxStrKeys - 1), 1..MaxInc)
\* mhash_init with any arguments, 0 included
DoMInitAny == MInit(0..(MaxCap + 1), 0..MaxInc)

DoMSetptr ==
  /\ ready
  /\ \E hp \in BOOLEAN, key \in MKeyArgs, value \in Vals, oom \in 0..3 :
       \E r \in {mhash_setptr(mhash, heap, hp, key, value, oom)} :
          /\ NullTable(hp, key, value)
          /\ OomDrawn(oom, r.ret)
          /\ r.mh.pool_size <= MaxRec
          /\ mhash' = r.mh
          /\ heap' = r.heap
          /\ res' = MCall("msetptr", key, value, r.ret, Stale, hp,
                          Resized(r.mh), oom)
          /\ amap' = IF r.ret = MHASH_OK
                     THEN [amap EXCEPT ![key.s] = [key |-> key, value |-> value]]
                     ELSE amap
          /\ UNCHANGED <<uvars, hashtable, ready, given, ndel>>

DoMReplaceptr ==
  /\ ready
  /\ \E hp \in BOOLEAN, key \in MKeyArgs, value \in Vals, oom \in 0..3 :
       \E r \in {mhash_replaceptr(mhash, heap, hp, key, value, oom)} :
          /\ NullTable(hp, key, value)
          /\ OomDrawn(oom, r.ret)
          /\ r.mh.pool_size <= MaxRec
          /\ mhash' = r.mh
          /\ heap' = r.heap
          \* val records the value the key had before the call (Stale:
          \* the key was absent); the function has no output parameter
          /\ res' = MCall("mreplaceptr", key, value, r.ret,
                          IF hp THEN hashtable_get(mhash.hash, TRUE, key, TRUE,
                                                Stale).val
                          ELSE Stale,
                          hp, Resized(r.mh), oom)
          /\ amap' = IF r.ret = MHASH_OK THEN Upsert(amap, key, value) ELSE amap
          /\ UNCHANGED <<uvars, hashtable, ready, given, ndel>>

DoMSetstr ==
  /\ ready
  /\ \E hp \in BOOLEAN, key \in SKeyArgs, value \in StrVals \cup {NULL},
        oom \in 0..4 :
       \E r \in {mhash_setstr(mhash, heap, hp, key, value, oom)} :
          /\ NullTable(hp, key, value)
          /\ OomDrawn(oom, r.ret)
          /\ r.mh.pool_size <= MaxRec
          /\ mhash' = r.mh
          /\ heap' = r.heap
          /\ res' = MCall("msetstr", key, value, r.ret, Stale, hp,
                          Resized(r.mh), oom)
          /\ amap' = IF r.ret = MHASH_OK
                     THEN [amap EXCEPT ![key.s] = [key |-> key, value |-> value]]
                     ELSE amap
          /\ UNCHANGED <<uvars, hashtable, ready, given, ndel>>

DoMReplacestr ==
  /\ ready
  /\ \E hp \in BOOLEAN, key \in SKeyArgs, value \in StrVals \cup {NULL},
        oom \in 0..4 :
       \E r \in {mhash_replacestr(mhash, heap, hp, key, value, oom)} :
          /\ NullTable(hp, key, value)
          /\ OomDrawn(oom, r.ret)
          /\ r.mh.pool_size <= MaxRec
          /\ mhash' = r.mh
          /\ heap' = r.heap
          /\ res' = MCall("mreplacestr", key, value, r.ret, Stale, hp,
                          Resized(r.mh), oom)
          /\ amap' = IF r.ret = MHASH_OK THEN Upsert(amap, key, value) ELSE amap
          /\ UNCHANGED <<uvars, hashtable, ready, given, ndel>>

DoMGetptr ==
  /\ ready
  /\ \E hp \in BOOLEAN, key \in MKeyArgs :
       \E r \in {mhash_getptr(mhash, hp, key, TRUE, Stale)} :
          /\ NullTable(hp, key, NULL)
          /\ res' = MCall("mgetptr", key, NULL, r.ret, r.val, hp, 0, 0)
          /\ UNCHANGED <<uvars, hashtable, ready, amap, given, ndel, gvars>>

\* mhash_delptr (deallocate_val = 0) and mhash_delstr (deallocate_val = 1)
MDel(keys, deallocate_val) ==
  /\ ready
  /\ \E hp \in BOOLEAN, key \in keys :
       \E r \in {mhash_del(mhash, heap, hp, key, deallocate_val)} :
          /\ NullTable(hp, key, NULL)
          /\ r.ret = MHASH_OK => ndel < MaxDel
          /\ mhash' = r.mh
          /\ heap' = r.heap
          /\ res' = MCall(IF deallocate_val THEN "mdelstr" ELSE "mdelptr",
                          key, NULL, r.ret, Stale, hp, 0, 0)
          /\ amap' = IF r.ret = MHASH_OK
                     THEN [amap EXCEPT ![key.s] = Absent]
                     ELSE amap
          /\ ndel' = IF r.ret = MHASH_OK THEN ndel + 1 ELSE ndel
          /\ UNCHANGED <<uvars, hashtable, ready, given>>

DoMDelptr == MDel(MKeyArgs, FALSE)
DoMDelstr == MDel(SKeyArgs, TRUE)
\* mhash_delptr on a table of string copies: the value stays with the caller
DoMDelstrKeep == MDel(SKeyArgs, FALSE)

\* mhash_resize called by the user on a table with at most MaxFree free
\* nodes (the insert functions call it on a full table); n
\* records the table_size before the call
DoMResize ==
  /\ ready
  /\ mhash.hash.pool_size <= MaxFree
  /\ \E oom \in 0..2 :
       \E r \in {mhash_resize(mhash, heap, oom, 0)} :
          /\ OomDrawn(oom, r.ret)
          /\ r.mh.pool_size <= MaxRec
          /\ mhash' = r.mh
          /\ heap' = r.heap
          /\ res' = MCall("mresize", NULL, NULL, r.ret, Stale, TRUE,
                          mhash.hash.table_size, oom)
          /\ UNCHANGED <<uvars, hashtable, ready, amap, given, ndel>>

\* a GrowableTable used with the pointer functions
GrowNext ==
  \/ DoMInit \/ DoMSetptr \/ DoMReplaceptr \/ DoMGetptr \/ DoMDelptr
  \/ DoMResize

GrowSpec == GrowInit /\ [][GrowNext]_vars

\* lookups on a table used with the string functions
DoMGetstrKey ==
  /\ ready
  /\ \E hp \in BOOLEAN, key \in SKeyArgs :
       \E r \in {mhash_getptr(mhash, hp, key, TRUE, Stale)} :
          /\ NullTable(hp, key, NULL)
          /\ res' = MCall("mgetptr", key, NULL, r.ret, r.val, hp, 0, 0)
          /\ UNCHANGED <<uvars, hashtable, ready, amap, given, ndel, gvars>>

\* a GrowableTable used with the string functions
StrNext ==
  \/ DoMInitStr \/ DoMSetstr \/ DoMReplacestr \/ DoMGetstrKey \/ DoMDelstr
  \/ DoMDelstrKeep \/ DoMResize

StrSpec == GrowInit /\ [][StrNext]_vars

\* the ints the caller's *val holds before mhash_getint, and the contents of
\* an uninitialized pointer
Junk == {[a |-> j, s |-> 0] : j \in 0..MaxJunk}

\* value records the caller's *val before the call
DoMGetint ==
  /\ ready
  /\ \E hp \in BOOLEAN, key \in SKeyArgs, hasval \in BOOLEAN, val \in Junk,
        p \in Junk :
       \E r \in {mhash_getint(mhash, hp, key, hasval, val, p)} :
          /\ NullTable(hp, key, NULL)
          /\ res' = MCall("mgetint", key, val, r.ret, r.val, hp, 0, 0)
          /\ UNCHANGED <<uvars, hashtable, ready, amap, given, ndel, gvars>>

\* the copy mhash_getstr gives belongs to the caller, who keeps it
DoMGetstr ==
  /\ ready
  /\ \E hp \in BOOLEAN, key \in SKeyArgs, hasval \in BOOLEAN, oom \in 0..1 :
       \E r \in {mhash_getstr(mhash, heap, hp, key, hasval, Stale, oom)} :
          /\ NullTable(hp, key, NULL)
          /\ OomDrawn(oom, r.ret)
          \* every entry in use points to two blocks, its key and its value
          /\ r.heap # heap
               => Cardinality({a \in heap : a > HeapBase /\ a <= ArrBase})
                    < 2 * (Len(mhash.hash.entry) - mhash.hash.pool_size)
                        + MaxCopies
          /\ heap' = r.heap
          /\ res' = MCall("mgetstr", key, NULL, r.ret, r.val, hp, 0, oom)
          /\ UNCHANGED <<uvars, hashtable, ready, amap, given, ndel, mhash>>

\* lookups on a table filled with mhash_setstr
LookupNext ==
  DoMInitStr \/ DoMSetstr \/ DoMGetstrKey \/ DoMGetint \/ DoMGetstr

LookupSpec == GrowInit /\ [][LookupNext]_vars

\* the last call was a mhash_setptr that found the table full and was
\* refused after its resize
Refused(r) == r.op = "msetptr" /\ r.flag /\ r.ret = HASHTABLE_FULL

\* the caller of a refused mhash_setptr calls it again with the same key and
\* value; no malloc fails
DoRetry ==
  /\ ready
  /\ Refused(res)
  /\ \E r \in {mhash_setptr(mhash, heap, TRUE, res.key, res.value, 0)} :
       /\ mhash' = r.mh
       /\ heap' = r.heap
       /\ res' = MCall("msetptr", res.key, res.value, r.ret, Stale, TRUE,
                       Resized(r.mh), 0)
       /\ amap' = IF r.ret = MHASH_OK
                  THEN [amap EXCEPT ![res.key.s] =
                          [key |-> res.key, value |-> res.value]]
                  ELSE amap
       /\ UNCHANGED <<uvars, hashtable, ready, given, ndel>>

\* a caller that fills the table and, once refused, retries until accepted
RetryNext ==
  \/ (~Refused(res) /\ (DoMInit \/ DoMSetptr \/ DoMDelptr))
  \/ DoRetry

\* the caller keeps retrying: a retry that stays possible is made
RetrySpec == GrowInit /\ [][RetryNext]_vars /\ WF_vars(DoRetry)

\* mhash_init reaches its loop with table_size = 1
DoLoopInit ==
  /\ loop.pc # "run"
  /\ \E pool_size \in 1..IntMax :
       loop' = [pc |-> "run", fn |-> "init", table_size |-> 1,
                pool_size |-> pool_size]
  /\ UNCHANGED <<hashtable, ready, res, amap, given, ndel, gvars, walk,
                 new_hash>>

\* mhash_resize reaches its loop with the table_size of the table, a power
\* of two, when the load test holds
DoLoopResize ==
  /\ loop.pc # "run"
  /\ \E table_size \in {t \in 1..IntMax : is_power_of_2(t)},
        pool_size \in 1..IntMax :
       /\ LoadTest(table_size, pool_size)
       /\ loop' = [pc |-> "run", fn |-> "resize", table_size |-> table_size,
                   pool_size |-> pool_size]
  /\ UNCHANGED <<hashtable, ready, res, amap, given, ndel, gvars, walk,
                 new_hash>>

\* one test of the loop condition, and one shift when it holds
DoLoopStep ==
  /\ loop.pc = "run"
  /\ loop' = IF LoopTest(loop.table_size, loop.pool_size)
             THEN [loop EXCEPT !.table_size = ShiftLeft1(loop.table_size)]
             ELSE [loop EXCEPT !.pc = "done"]
  /\ UNCHANGED <<hashtable, ready, res, amap, given, ndel, gvars, walk,
                 new_hash>>

LoopNext == DoLoopInit \/ DoLoopResize \/ DoLoopStep

\* a loop that has started keeps running
LoopSpec == FixedInit /\ [][LoopNext]_vars /\ WF_vars(DoLoopStep)

\* a GrowableTable made with any arguments and then filled
InitNext == DoMInitAny \/ DoMSetptr \/ DoMGetptr

InitSpec == GrowInit /\ [][InitNext]_vars

\* ------------------------------------- FixedTable: walk, add2pool, copy
\* hashtable_walk is called with a function fcn that returns non-zero at its
\* call number stop (never when stop = 0) and does not write to the table
DoWalkStart ==
  /\ ready
  /\ walk.pc = "idle"
  /\ \E stop \in 0..MaxStop :
       LET w == walk_start(hashtable)
       IN /\ walk' = [pc |-> w.pc, i |-> w.i, e |-> w.e, calls |-> << >>,
                      stop |-> stop]
          /\ res' = Call("walk", NULL, NULL, 0, Stale, Stale, TRUE, stop)
  /\ UNCHANGED <<hashtable, ready, amap, given, ndel, gvars, new_hash, loop>>

\* fcn(e) is called and returns
DoWalkCall ==
  /\ walk.pc = "call"
  /\ LET rv == IF Len(walk.calls) + 1 = walk.stop THEN 1 ELSE 0
         w == walk_call(hashtable, walk, rv)
     IN walk' = [pc |-> w.pc, i |-> w.i, e |-> w.e,
                 calls |-> Append(walk.calls,
                                  [key |-> hashtable.entry[walk.e].key,
                                   value |-> hashtable.entry[walk.e].value]),
                 stop |-> walk.stop]
  /\ UNCHANGED <<hashtable, ready, res, amap, given, ndel, gvars, new_hash,
               loop>>

\* hashtable_walk returns
DoWalkReturn ==
  /\ walk.pc = "done"
  /\ walk' = WalkIdle
  /\ UNCHANGED <<hashtable, ready, res, amap, given, ndel, gvars, new_hash,
               loop>>

\* hashtable_add2pool with an array of pool_size >= 1 nodes
DoAdd2pool ==
  /\ ready
  /\ \E pool_size \in 1..MaxAdd :
       /\ given + pool_size <= MaxPoolArg
       /\ hashtable' = hashtable_add2pool(hashtable, pool_size)
       /\ res' = Call("add2pool", NULL, NULL, 0, Stale, Stale, TRUE, pool_size)
       /\ given' = given + pool_size
  /\ UNCHANGED <<ready, amap, ndel, gvars, uvars>>

\* hashtable_copy into a table just made by hashtable_init, of any valid
\* size and with any number of nodes
DoCopy ==
  /\ ready
  /\ \E table_size \in {t \in 1..(MaxTableArg + 1) : is_power_of_2(t)},
        pool_size \in 0..(MaxPoolArg + 1) :
       \E d \in {hashtable_init(Uninit, TRUE, TRUE, table_size, TRUE,
                                pool_size).h} :
          /\ new_hash' = hashtable_copy(hashtable, d)
          /\ res' = Call("copy", NULL, NULL, 0, Stale, Stale, TRUE, pool_size)
  /\ UNCHANGED <<hashtable, ready, amap, given, ndel, gvars, walk, loop>>

\* the caller discards the destination table
DoCopyDrop ==
  /\ new_hash # Uninit
  /\ new_hash' = Uninit
  /\ UNCHANGED <<hashtable, ready, res, amap, given, ndel, gvars, walk, loop>>

\* a FixedTable that is filled and walked; during a walk the program is
\* inside hashtable_walk
WalkNext ==
  \/ walk.pc = "idle" /\ (DoInit \/ DoSet \/ DoDelex \/ DoWalkStart)
  \/ DoWalkCall
  \/ DoWalkReturn

WalkSpec == FixedInit /\ [][WalkNext]_vars

\* a FixedTable that is filled and given more nodes
PoolNext == DoInit \/ DoSet \/ DoGetset \/ DoDelex \/ DoAdd2pool

PoolSpec == FixedInit /\ [][PoolNext]_vars

\* a FixedTable that is filled and copied; the caller discards a copy before
\* it goes on
CopyNext ==
  \/ new_hash = Uninit /\ (DoInit \/ DoSet \/ DoDelex \/ DoCopy)
  \/ DoCopyDrop

CopySpec == FixedInit /\ [][CopyNext]_vars

\* ------------------------------------------------- FixedTable: properties
\* what a lookup of key would return in table H
Lookup(H, key) == hashtable_get(H, TRUE, key, TRUE, Stale)

\* the bin chain that starts at node e, as a sequence of node pointers
RECURSIVE Chain(_, _)
Chain(H, e) == IF e = 0 THEN << >> ELSE <<e>> \o Chain(H, H.entry[e].next)

\* the last call was made on a table with a non-null key
KeyCall(r, op) == r.op = op /\ r.key # NULL

\* C1: after successful hashtable_set calls with distinct keys, hashtable_get
\* of any of those keys returns HASHTABLE_OK and writes the value that was set
\* for it, whatever the bins and the insertion order.
C1_GetReturnsSetValue ==
  (KeyCall(res, "get") /\ res.key.s \in Present(amap))
    => (res.ret = HASHTABLE_OK /\ res.val = amap[res.key.s].value)

\* a lookup that found its key behind another entry of the same chain, in a
\* table holding three keys
C1_Witness ==
  /\ KeyCall(res, "get") /\ res.ret = HASHTABLE_OK
  /\ Cardinality(Present(amap)) >= 3
  /\ LET head == hashtable.table[hashtable_hash(hashtable, res.key)]
     IN head # 0 /\ hashtable.entry[head].key.s # res.key.s

\* C2: hashtable_set with a key that is present returns HASHTABLE_DUPL and
\* leaves the object, the bins, the chains, the stored keys and values, the
\* free list and pool_size as they were.
C2_SetDuplicate ==
  [][(KeyCall(res', "set") /\ res'.key.s \in Present(amap))
       => (res'.ret = HASHTABLE_DUPL /\ hashtable' = hashtable)]_vars

\* a duplicate insert through a pointer other than the stored one, with a
\* value other than the stored one
C2_Witness ==
  /\ KeyCall(res, "set") /\ res.ret = HASHTABLE_DUPL
  /\ amap[res.key.s].key # res.key
  /\ amap[res.key.s].value # res.value

\* C3: hashtable_getset with a non-null value_out has three outcomes: absent
\* key and a free node: the pair is inserted, *value_out = 0, PARTIAL; present
\* key: the value is overwritten in place, *value_out is the previous value,
\* OK; absent key and no free node: FULL.
C3_GetsetOutcomes ==
  [][(KeyCall(res', "getset") /\ res'.flag)
       => LET s == res'.key.s
          IN IF s \in Present(amap)
             THEN /\ res'.ret = HASHTABLE_OK
                  /\ res'.val = amap[s].value
                  /\ Lookup(hashtable', res'.key).val = res'.value
                  /\ hashtable'.table = hashtable.table
                  /\ hashtable'.pool = hashtable.pool
                  /\ hashtable'.pool_size = hashtable.pool_size
                  /\ \A e \in DOMAIN hashtable.entry :
                       /\ hashtable'.entry[e].key = hashtable.entry[e].key
                       /\ hashtable'.entry[e].next = hashtable.entry[e].next
             ELSE IF Cardinality(Present(amap)) < given
             THEN /\ res'.ret = HASHTABLE_PARTIAL
                  /\ res'.val = NULL
                  /\ Lookup(hashtable', res'.key) =
                       [ret |-> HASHTABLE_OK, val |-> res'.value]
                  /\ hashtable'.pool_size = hashtable.pool_size - 1
             ELSE res'.ret = HASHTABLE_FULL]_vars

\* a getset that replaced a value by a different one
C3_Witness ==
  /\ KeyCall(res, "getset") /\ res.flag /\ res.ret = HASHTABLE_OK
  /\ res.val \in Vals /\ res.val # res.value
  /\ Cardinality(Present(amap)) >= 2

\* C4: hashtable_delex on a present key returns OK, yields the stored key
\* pointer and the stored value, makes a lookup of the key return NOTFOUND and
\* raises pool_size by one, so that an insert of a new key succeeds in the freed
\* node; on an absent key it returns NOTFOUND and changes nothing.
C4_Delex ==
  [][KeyCall(res', "delex")
       => LET s == res'.key.s
          IN IF s \in Present(amap)
             THEN /\ res'.ret = HASHTABLE_OK
                  /\ res'.kout = amap[s].key
                  /\ res'.val = amap[s].value
                  /\ Lookup(hashtable', res'.key).ret = HASHTABLE_NOTFOUND
                  /\ hashtable'.pool_size = hashtable.pool_size + 1
                  /\ \A k \in CallerKeys, v \in Vals :
                       k.s \notin Present(amap')
                         => LET r == hashtable_set(hashtable', TRUE, k, v)
                            IN /\ r.ret = HASHTABLE_OK
                               /\ r.h.entry[hashtable'.pool].key = k
                               /\ hashtable.entry[hashtable'.pool].key = amap[s].key
                               /\ r.h.pool_size = hashtable.pool_size
             ELSE /\ res'.ret = HASHTABLE_NOTFOUND
                  /\ hashtable' = hashtable
                  /\ res'.kout = Stale /\ res'.val = Stale]_vars

\* a deletion, through another pointer than the stored one, of an entry that
\* was not the head of its chain
C4_Witness ==
  /\ KeyCall(res, "delex") /\ res.ret = HASHTABLE_OK
  /\ res.kout # res.key
  /\ hashtable.table[hashtable_hash(hashtable, res.key)] # 0
  /\ strcmp(res.key,
            hashtable.entry[hashtable.table[hashtable_hash(hashtable, res.key)]].key) > 0

\* C5: with an empty free list, hashtable_set and hashtable_getset of an
\* absent key return HASHTABLE_FULL and leave the table as it was.
C5_FullNoEffect ==
  [][((KeyCall(res', "set") \/ KeyCall(res', "getset"))
        /\ res'.key.s \notin Present(amap)
        /\ (hashtable.pool = 0 \/ hashtable.pool_size = 0))
       => (res'.ret = HASHTABLE_FULL /\ hashtable' = hashtable)]_vars

\* a refused getset on a table whose nodes are all in chains
C5_Witness ==
  /\ KeyCall(res, "getset") /\ res.ret = HASHTABLE_FULL
  /\ hashtable.pool = 0
  /\ Cardinality(Present(amap)) >= 2

\* C6: on a table initialised with pool_size N, an insert of a new key
\* returns HASHTABLE_OK as long as fewer than N keys are stored, whatever
\* their bins, and HASHTABLE_FULL once N keys are stored.
C6_FillToCapacity ==
  [][(KeyCall(res', "set") /\ res'.key.s \notin Present(amap))
       => res'.ret = (IF Cardinality(Present(amap)) < given
                      THEN HASHTABLE_OK ELSE HASHTABLE_FULL)]_vars

\* the insert that follows N >= 2 successful ones, on a table with two bins
\* in use
C6_Witness ==
  /\ KeyCall(res, "set") /\ res.ret = HASHTABLE_FULL
  /\ given >= 2 /\ Cardinality(Present(amap)) = given
  /\ ndel = 0
  /\ \A b \in DOMAIN hashtable.table : hashtable.table[b] # 0

\* a positive power of two
IsPowerOfTwo(n) == \E k \in 0..16 : n = 2^k

\* C9: hashtable_init returns HASHTABLE_INVARG and writes nothing when hash,
\* table or pool is null or table_size is not a positive power of two;
\* otherwise it returns HASHTABLE_OK and every bin is empty.
C9_InitArgs ==
  [][res'.op = "init"
       => IF res'.flag /\ IsPowerOfTwo(res'.n)
          THEN /\ res'.ret = HASHTABLE_OK
               /\ hashtable'.table_size = res'.n
               /\ DOMAIN hashtable'.table = 0..(res'.n - 1)
               /\ \A b \in DOMAIN hashtable'.table : hashtable'.table[b] = 0
          ELSE /\ res'.ret = HASHTABLE_INVARG
               /\ hashtable' = hashtable]_vars

\* a call with non-null pointers refused for a table_size of 3
C9_Witness ==
  /\ res.op = "init" /\ res.ret = HASHTABLE_INVARG
  /\ res.flag /\ res.n = 3
  /\ hashtable = Uninit

\* ----------------------------------------------- GrowableTable: properties
\* the last call was made on a non-null table with a non-null key
MKeyCall(r, op) == r.op = op /\ r.flag /\ r.key # NULL

\* the (stored key pointer, value) pairs of the chain that starts at node e
RECURSIVE ChainPairs(_, _)
ChainPairs(H, e) ==
  IF e = 0 THEN << >>
  ELSE <<[key |-> H.entry[e].key, value |-> H.entry[e].value]>>
         \o ChainPairs(H, H.entry[e].next)

\* the pairs of bins b, b + 1, ... in walk order
RECURSIVE AllPairs(_, _)
AllPairs(H, b) ==
  IF b >= H.table_size THEN << >>
  ELSE ChainPairs(H, H.table[b]) \o AllPairs(H, b + 1)

\* what a user of table H can observe: the content of every bin, in chain
\* order, and the number of inserts the table still accepts
View(H) ==
  [bins |-> [b \in DOMAIN H.table |-> ChainPairs(H, H.table[b])],
   free |-> H.pool_size]

Reverse(seq) == [i \in 1..Len(seq) |-> seq[Len(seq) + 1 - i]]

\* table H0 after hashtable_set of each pair of seq
RECURSIVE Build(_, _)
Build(H0, seq) ==
  IF seq = << >> THEN H0
  ELSE CHOOSE y \in {Build(x, Tail(seq)) : x \in
         {hashtable_set(H0, TRUE, Head(seq).key, Head(seq).value).h}} : TRUE

\* a table of the size of H built from scratch with the pairs, inserted in
\* the reverse of the walk order
Fresh(H, pairs) ==
  Build(hashtable_init(Uninit, TRUE, TRUE, H.table_size, TRUE, Len(H.entry)).h,
        Reverse(pairs))

\* all keys of the mapping are found in the table with their values
AllRetrievable(M, m) ==
  \A s \in Present(m) :
    mhash_getptr(M, TRUE, [a |-> s, s |-> s], TRUE, Stale) =
      [ret |-> MHASH_OK, val |-> m[s].value]

\* C7: on a table made by mhash_init with capacity C >= 1 and increment >= 1,
\* after C successful inserts of distinct keys, mhash_setptr (mhash_setstr)
\* of a new key, the allocator not failing, returns MHASH_OK and all C + 1
\* keys are then retrievable with their values.
C7_InsertBeyondCapacity ==
  [][((MKeyCall(res', "msetptr") \/ MKeyCall(res', "msetstr"))
        /\ res'.oom = 0
        /\ res'.key.s \notin Present(amap)
        /\ ndel = 0
        /\ mhash.pool_size = given
        /\ Cardinality(Present(amap)) = given)
       => (res'.ret = MHASH_OK /\ AllRetrievable(mhash', amap'))]_vars

\* tables A and B show the same content and answer one more insert alike
SameTable(A, B) ==
  /\ View(A) = View(B)
  /\ \A k \in CallerKeys, v \in Vals :
       LET a == hashtable_set(A, TRUE, k, v)
           b == hashtable_set(B, TRUE, k, v)
       IN a.ret = b.ret /\ View(a.h) = View(b.h)

\* table new holds the pairs of table old and nothing else, and answers as
\* a fresh build from these pairs
Preserved(old, new, pairs, after) ==
  /\ Len(after) = Len(pairs)
  /\ {after[i] : i \in DOMAIN after} = {pairs[i] : i \in DOMAIN pairs}
  /\ \A k \in CallerKeys : Lookup(new, k) = Lookup(old, k)
  /\ new.pool_size >= old.pool_size
  /\ SameTable(new, Fresh(new, pairs))

\* C8: a successful mhash_resize keeps every stored pair: the same key
\* pointers with the same values, no key added, every lookup answering as
\* before, and the resized table is the table a fresh build of the same size
\* from the same pairs gives, also after one more insert.
C8_ResizePreserves ==
  [][(res'.op = "mresize" /\ res'.ret = MHASH_OK)
       => Preserved(mhash.hash, mhash'.hash,
                    AllPairs(mhash.hash, 0), AllPairs(mhash'.hash, 0))]_vars

\* a resize that enlarged the bin array of a table whose two entries shared
\* a chain
C8_Witness ==
  /\ res.op = "mresize" /\ res.ret = MHASH_OK
  /\ res.n = 2 /\ mhash.hash.table_size > 2
  /\ Cardinality(Present(amap)) >= 2
  /\ \E b \in DOMAIN mhash.hash.table :
       Len(ChainPairs(mhash.hash, mhash.hash.table[b])) >= 2

\* C10: mhash_setptr and mhash_setstr return MHASH_OK, MHASH_INVARG,
\* MHASH_NOMEM or MHASH_DUPL; mhash_replaceptr and mhash_replacestr return
\* MHASH_OK, MHASH_INVARG or MHASH_NOMEM.
C10_ReturnCodes ==
  /\ res.op \in {"msetptr", "msetstr"}
       => res.ret \in {MHASH_OK, MHASH_INVARG, MHASH_NOMEM, MHASH_DUPL}
  /\ res.op \in {"mreplaceptr", "mreplacestr"}
       => res.ret \in {MHASH_OK, MHASH_INVARG, MHASH_NOMEM}

\* the four insert functions
InsertOps == {"msetptr", "msetstr", "mreplaceptr", "mreplacestr"}

\* the live blocks made by mystrdup
StrBlocks(h) == {a \in h : a > HeapBase /\ a <= ArrBase}

\* the addresses of the heap blocks the entries of table H point to
StoredBlocks(H) ==
  LET pairs == AllPairs(H, 0)
  IN {pairs[i].key.a : i \in DOMAIN pairs}
       \cup {pairs[i].value.a : i \in {j \in DOMAIN pairs : pairs[j].value.s # 0}}

NEntries(H) == Len(AllPairs(H, 0))

\* the call res' finds the table full: its key is new, its copies were made
\* and no node is free
FindsFull(r) ==
  /\ r.op \in InsertOps /\ r.flag /\ r.key # NULL
  /\ r.op \in {"msetstr", "mreplacestr"} => (r.value # NULL /\ r.oom \notin {1, 2})
  /\ r.op \in {"msetptr", "mreplaceptr"} => r.oom # 1
  /\ r.key.s \notin Present(amap)
  /\ mhash.hash.pool_size = 0

\* C11: in the four insert functions a full table leads to exactly one
\* mhash_resize (the recorded pool_size grows by one increment, or not at all
\* when the resize fails) and at most one more insert; when the call returns
\* a code other than MHASH_OK the live string blocks are those of before the
\* call, the call has freed no block twice, and the entries point to the same
\* blocks as before, all of them live.
C11_RetryOnceNoLeak ==
  [][(res'.op \in InsertOps /\ res'.flag)
       => /\ IF FindsFull(res') /\ res'.ret # MHASH_NOMEM
             THEN mhash'.pool_size = mhash.pool_size + mhash.pool_increment
             ELSE mhash'.pool_size = mhash.pool_size
          /\ NEntries(mhash'.hash) \in
               {NEntries(mhash.hash), NEntries(mhash.hash) + 1}
          /\ InvalidFree \in heap' => InvalidFree \in heap
          /\ res'.ret # MHASH_OK
               => /\ StrBlocks(heap') = StrBlocks(heap)
                  /\ StoredBlocks(mhash'.hash) = StoredBlocks(mhash.hash)
                  /\ StoredBlocks(mhash'.hash) \subseteq heap']_vars

\* an insert of a key and a value copy that was refused after its resize
\* and its second hashtable_set
C11_Witness ==
  /\ res.op = "msetstr" /\ res.ret = HASHTABLE_FULL
  /\ NEntries(mhash.hash) >= 1
  /\ StrBlocks(heap) = StoredBlocks(mhash.hash)

\* the (stored key pointer, value) pairs of table H
Entries(H) == {AllPairs(H, 0)[i] : i \in 1..NEntries(H)}

\* C12: mhash_del of a present key removes its entry and no other, frees the
\* stored key copy once and the stored value exactly when deallocate_val is
\* set; of an absent key it returns MHASH_NOTFOUND, frees nothing and leaves
\* the table as it was.
C12_Del ==
  [][\A d \in BOOLEAN :
       MKeyCall(res', IF d THEN "mdelstr" ELSE "mdelptr")
         => LET hit == {e \in Entries(mhash.hash) : e.key.s = res'.key.s}
            IN IF hit # {}
               THEN \E e \in hit :
                      /\ res'.ret = MHASH_OK
                      /\ Entries(mhash'.hash) = Entries(mhash.hash) \ {e}
                      /\ Lookup(mhash'.hash, res'.key).ret = HASHTABLE_NOTFOUND
                      /\ mhash'.hash.pool_size = mhash.hash.pool_size + 1
                      /\ e.key.a \in heap
                      /\ d => (e.value.a \in heap /\ e.value.a # e.key.a)
                      /\ heap' = heap \ ({e.key.a}
                                   \cup (IF d THEN {e.value.a} ELSE {}))
               ELSE /\ res'.ret = MHASH_NOTFOUND
                    /\ mhash' = mhash
                    /\ heap' = heap]_vars

\* a delete with deallocate_val set that removed one of two entries
C12_Witness ==
  /\ res.op = "mdelstr" /\ res.ret = MHASH_OK
  /\ NEntries(mhash.hash) = 1
  /\ StrBlocks(heap) = StoredBlocks(mhash.hash)

\* C13: when mhash_replaceptr or mhash_replacestr returns MHASH_OK, the key
\* is found with the new value (for mhash_replacestr a live copy of it), the
\* table has one more entry if the key was absent and as many as before if
\* it was present, and the entries of all other keys are as before; this
\* also holds when the call resized the table.
C13_ReplaceUpsert ==
  [][\A op \in {"mreplaceptr", "mreplacestr"} :
       (MKeyCall(res', op) /\ res'.ret = MHASH_OK)
         => LET E == Entries(mhash.hash)
                E2 == Entries(mhash'.hash)
                k == res'.key.s
            IN /\ \E e \in E2 :
                    /\ e.key.s = k
                    /\ IF op = "mreplaceptr" THEN e.value = res'.value
                       ELSE e.value.s = res'.value.s /\ e.value.a \in heap'
                    /\ mhash_getptr(mhash', TRUE, res'.key, TRUE, Stale) =
                         [ret |-> MHASH_OK, val |-> e.value]
               /\ NEntries(mhash'.hash) =
                    NEntries(mhash.hash)
                      + (IF \E e \in E : e.key.s = k THEN 0 ELSE 1)
               /\ {e \in E2 : e.key.s # k} = {e \in E : e.key.s # k}]_vars

\* mhash_replaceptr has inserted a second key after resizing the full table
C13_Witness ==
  /\ res.op = "mreplaceptr" /\ res.ret = MHASH_OK /\ res.n = 1
  /\ NEntries(mhash.hash) = 2

\* C14: when mhash_replacestr overwrites the value of a stored key, the old
\* value block is freed once, the copy made of the key is freed, the entry
\* keeps the key block it had, and the stored value is the new copy of the
\* value, a block that was not live before the call.
C14_ReplacestrOverwrite ==
  [][(MKeyCall(res', "mreplacestr") /\ res'.ret = MHASH_OK)
       => \A e \in {x \in Entries(mhash.hash) : x.key.s = res'.key.s} :
            \E e2 \in Entries(mhash'.hash) :
              /\ e2.key = e.key
              /\ e2.key.a \in heap'
              /\ e2.value.s = res'.value.s
              /\ e2.value.a \notin heap
              /\ e.value.a \in heap
              /\ heap' = (heap \ {e.value.a}) \cup {e2.value.a}
              /\ InvalidFree \in heap' => InvalidFree \in heap
              /\ Entries(mhash'.hash) = (Entries(mhash.hash) \ {e}) \cup {e2}
              /\ mhash'.hash.pool_size = mhash.hash.pool_size]_vars

\* mhash_replacestr has overwritten the value of the only key: the value
\* block is the fourth block the allocator gave out, after the first key and
\* value and the copy of the key
C14_Witness ==
  /\ res.op = "mreplacestr" /\ res.ret = MHASH_OK /\ res.n = 0 /\ ndel = 0
  /\ \E e \in Entries(mhash.hash) :
       e.key.a = HeapBase + 1 /\ e.value.a = HeapBase + 4
  /\ StrBlocks(heap) = {HeapBase + 1, HeapBase + 4}

\* C15: when malloc fails inside mhash_resize, for the bin array or for the
\* pool array, whether the resize was called by an insert function that
\* found the table full or directly, the call returns MHASH_NOMEM, the heap
\* is the one of before the call (the copies of the call and the first array
\* of the resize are freed) and the table object, with its arrays, entries
\* and recorded capacity, is unchanged.
C15_ResizeNoMem ==
  [][((FindsFull(res') \/ res'.op = "mresize") /\ res'.oom # 0)
       => /\ res'.ret = MHASH_NOMEM
          /\ heap' = heap
          /\ mhash' = mhash]_vars

\* mhash_setstr has failed on the second malloc of its resize, after the
\* copies of key and value and the new bin array were allocated
C15_Witness ==
  /\ res.op = "msetstr" /\ res.oom = 4 /\ res.ret = MHASH_NOMEM
  /\ NEntries(mhash.hash) = 1 /\ mhash.hash.pool_size = 0
  /\ heap # {}

\* C16: hashtable_getset called with a null value_aut never returns
\* HASHTABLE_PARTIAL: it returns OK when it inserts the key and when it
\* overwrites the value of a stored key, FULL when the key is absent and no
\* node is free, and INVARG when the table or the key is null.
C16_GetsetNoOut ==
  [][/\ (res'.op = "getset" /\ ~res'.flag)
          => IF res'.key = NULL
             THEN res'.ret = HASHTABLE_INVARG /\ hashtable' = hashtable
             ELSE IF res'.key.s \in Present(amap)
             THEN /\ res'.ret = HASHTABLE_OK
                  /\ Lookup(hashtable', res'.key) =
                       [ret |-> HASHTABLE_OK, val |-> res'.value]
                  /\ hashtable'.pool_size = hashtable.pool_size
             ELSE IF hashtable.pool_size >= 1
             THEN /\ res'.ret = HASHTABLE_OK
                  /\ Lookup(hashtable', res'.key) =
                       [ret |-> HASHTABLE_OK, val |-> res'.value]
                  /\ hashtable'.pool_size = hashtable.pool_size - 1
             ELSE res'.ret = HASHTABLE_FULL /\ hashtable' = hashtable
     /\ res'.op = "getsetnull"
          => res'.ret = HASHTABLE_INVARG /\ hashtable' = hashtable]_vars

\* a getset without value_aut that inserted a second key
C16_Witness ==
  /\ KeyCall(res, "getset") /\ ~res.flag /\ res.ret = HASHTABLE_OK
  /\ Cardinality(Present(amap)) = 2 /\ ndel = 0
  /\ hashtable.pool_size = given - 2

\* during hashtable_walk and at its end: fcn has been called with the first
\* entries of the table, in the order of ascending bin index and of the
\* chains, each once; the entry of the next call is the one that follows; no
\* call follows the one that returned non-zero; and the walk ends after that
\* call or, without one, after the last entry
WalkOrder ==
  walk.pc # "idle"
    => LET all == AllPairs(hashtable, 0)
           k == Len(walk.calls)
       IN /\ k <= Len(all)
          /\ walk.calls = SubSeq(all, 1, k)
          /\ walk.stop # 0 => k <= walk.stop
          /\ walk.pc = "call"
               => /\ k < Len(all)
                  /\ k # walk.stop \/ walk.stop = 0
                  /\ all[k + 1] = [key |-> hashtable.entry[walk.e].key,
                                   value |-> hashtable.entry[walk.e].value]
          /\ walk.pc = "done"
               => k = IF walk.stop \in 1..Len(all) THEN walk.stop ELSE Len(all)

\* C17: hashtable_walk calls fcn once for every entry, in ascending bin
\* index and chain order, as long as fcn returns 0; after the first non-zero
\* return it makes no further call; it never modifies the table.
C17_Walk ==
  [][/\ WalkOrder'
     /\ (walk.pc # "idle" \/ walk'.pc # "idle") => hashtable' = hashtable]_vars

\* a walk of three entries in two bins was stopped by its second call
C17_Witness ==
  /\ walk.pc = "done" /\ walk.stop = 2 /\ Len(walk.calls) = 2
  /\ NEntries(hashtable) = 3
  /\ hashtable.table_size = 2
  /\ hashtable.table[0] # 0 /\ hashtable.table[1] # 0

\* C18: hashtable_add2pool with n >= 1 nodes raises pool_size by n and
\* leaves table_size, the bins and the stored keys and values as they were;
\* from then on exactly n more inserts of new keys succeed: an insert of a
\* new key returns OK while fewer entries are stored than nodes were given
\* to the table, by hashtable_init and by hashtable_add2pool, and FULL
\* otherwise.
C18_Add2pool ==
  [][/\ res'.op = "add2pool"
          => /\ hashtable'.pool_size = hashtable.pool_size + res'.n
             /\ hashtable'.table_size = hashtable.table_size
             /\ hashtable'.table = hashtable.table
             /\ AllPairs(hashtable', 0) = AllPairs(hashtable, 0)
             /\ \A k \in CallerKeys :
                  Lookup(hashtable', k) = Lookup(hashtable, k)
             /\ hashtable'.pool_size = given' - NEntries(hashtable')
     /\ (res'.op = "set" /\ res'.key # NULL /\ res'.key.s \notin Present(amap))
          => IF NEntries(hashtable) < given
             THEN /\ res'.ret = HASHTABLE_OK
                  /\ Lookup(hashtable', res'.key) =
                       [ret |-> HASHTABLE_OK, val |-> res'.value]
             ELSE res'.ret = HASHTABLE_FULL /\ hashtable' = hashtable]_vars

\* two nodes were added to a table that was full with one entry
C18_Witness ==
  /\ res.op = "add2pool" /\ res.n = 2
  /\ NEntries(hashtable) = 1 /\ given = 3
  /\ hashtable.pool_size = 2

\* C19: hashtable_copy into a table just initialised, with at least as many
\* free nodes as the source has entries, makes every key of the source
\* retrievable from the destination with the same value and the same key
\* pointer, for every pair of table sizes; the destination has given one free
\* node for each entry and the source is unchanged.
C19_Copy ==
  [][(res'.op = "copy" /\ new_hash' # Uninit /\ res'.n >= NEntries(hashtable))
       => /\ Entries(new_hash') = Entries(hashtable)
          /\ \A k \in CallerKeys :
               Lookup(new_hash', k) = Lookup(hashtable, k)
          /\ new_hash'.pool_size = res'.n - NEntries(hashtable)
          /\ NEntries(new_hash') = NEntries(hashtable)
          /\ hashtable' = hashtable]_vars

\* three entries of a table with one bin were copied to a table with four
\* bins and four nodes
C19_Witness ==
  /\ res.op = "copy" /\ res.n = 4
  /\ hashtable.table_size = 1 /\ NEntries(hashtable) = 3
  /\ new_hash.table_size = 4 /\ NEntries(new_hash) = 3
  /\ new_hash.pool_size = 1

\* C20: mhash_init(c, g) that returns MHASH_OK has made a table whose bin
\* array has the smallest power of two >= c' elements, all empty, and whose
\* pool is a free list of exactly c' nodes, with c' = c if c # 0 and
\* DEFAULT_POOL_SIZE otherwise; the recorded pool capacity is c' and the
\* recorded increment is g if g # 0 and DEFAULT_POOL_INCREMENT otherwise.
C20_MInit ==
  [][(res'.op = "minit" /\ res'.ret = MHASH_OK)
       => LET c == IF res'.n # 0 THEN res'.n ELSE DEFAULT_POOL_SIZE
              g == IF res'.value.a # 0 THEN res'.value.a
                   ELSE DEFAULT_POOL_INCREMENT
              H == mhash'.hash
          IN /\ IsPowerOfTwo(H.table_size)
             /\ H.table_size >= c
             /\ H.table_size = 1 \/ H.table_size \div 2 < c
             /\ DOMAIN H.table = 0..(H.table_size - 1)
             /\ \A b \in DOMAIN H.table : H.table[b] = 0
             /\ H.pool_size = c
             /\ Len(H.entry) = c
             /\ H.pool = 1
             /\ \A e \in 1..c : H.entry[e].next = IF e < c THEN e + 1 ELSE 0
             /\ mhash'.pool_size = c
             /\ mhash'.pool_increment = g]_vars

\* mhash_init(0, 0) has made a table of the default size
C20_Witness ==
  /\ res.op = "minit" /\ res.ret = MHASH_OK /\ res.n = 0 /\ res.value.a = 0
  /\ mhash.hash.table_size = DEFAULT_POOL_SIZE
  /\ mhash.pool_increment = DEFAULT_POOL_INCREMENT

\* the nodes met from node e by following next, at most n of them
RECURSIVE Reach(_, _, _)
Reach(H, e, n) ==
  IF e = 0 \/ n = 0 THEN << >>
  ELSE <<e>> \o Reach(H, H.entry[e].next, n - 1)

\* the nodes of the chains of bins b, b + 1, ...
RECURSIVE BinNodes(_, _)
BinNodes(H, b) ==
  IF b >= H.table_size THEN << >>
  ELSE Reach(H, H.table[b], Len(H.entry) + 1) \o BinNodes(H, b + 1)

\* the nodes of the free list
FreeNodes(H) == Reach(H, H.pool, Len(H.entry) + 1)

Occurrences(seq, x) == Cardinality({i \in DOMAIN seq : seq[i] = x})

\* C21: after hashtable_init and any hashtable_set, hashtable_getset,
\* hashtable_delex and hashtable_add2pool calls, every node of the pool
\* arrays is met exactly once when all bin chains and the free list are
\* followed: it is in one chain or in the free list, not in both and not in
\* neither, and no chain and no free list has a cycle.
C21_NodePartition ==
  ready
    => LET all == BinNodes(hashtable, 0) \o FreeNodes(hashtable)
       IN /\ Len(all) = Len(hashtable.entry)
          /\ \A x \in 1..Len(hashtable.entry) : Occurrences(all, x) = 1

\* nodes were added to a table that has one entry and one node freed by a
\* deletion
C21_Witness ==
  /\ res.op = "add2pool" /\ ndel = 1
  /\ NEntries(hashtable) = 1
  /\ Len(hashtable.entry) = 3 /\ hashtable.pool_size = 2

\* C22: in every reachable state of a FixedTable pool_size is the number of
\* nodes reachable from the free-list head pool, after hashtable_init and
\* hashtable_add2pool with any accepted pool_size (0 included) and after any
\* hashtable_set, hashtable_getset and hashtable_delex calls.
C22_PoolSizeCount ==
  ready => hashtable.pool_size = Len(FreeNodes(hashtable))

\* the chains of table H are strictly ascending in strcmp order, every
\* entry is in the bin of its key's hash, and a key that hashtable_get does
\* not find is the key of no entry
ChainsSorted(H) ==
  /\ \A b \in 0..(H.table_size - 1) :
       LET c == ChainPairs(H, H.table[b])
       IN /\ \A i \in 1..(Len(c) - 1) :
               SeqCmp(Strs[c[i].key.s], Strs[c[i + 1].key.s]) < 0
          /\ \A i \in 1..Len(c) :
               AndMask(HashVal[c[i].key.s], H.table_size - 1) = b
  /\ \A k \in CallerKeys :
       Lookup(H, k).ret = HASHTABLE_NOTFOUND
         => \A e \in Entries(H) : e.key.s # k.s

Capacity(H) == NEntries(H) + H.pool_size

\* the step is a successful mhash_resize of a full table, called directly or
\* by an insert function
ResizedFull ==
  /\ mhash.hash.pool_size = 0
  /\ \/ res'.op = "mresize" /\ res'.ret = MHASH_OK
     \/ res'.op \in InsertOps /\ res'.flag /\ res'.n = 1

\* C24: every successful mhash_resize of a full table yields an inner table
\* whose pool capacity, entries plus free nodes, is the capacity of before
\* plus pool_increment.
C24_ResizeCapacity ==
  [][ResizedFull
       => Capacity(mhash'.hash) = Capacity(mhash.hash) + mhash.pool_increment]_vars

\* the step is a successful mhash_resize, called directly or by an insert
\* function
ResizedStep ==
  \/ res'.op = "mresize" /\ res'.ret = MHASH_OK
  \/ res'.op \in InsertOps /\ res'.flag /\ res'.n = 1

C26_OwnedPointers ==
  ready
    => LET pairs == AllPairs(mhash.hash, 0)
           strv == {i \in DOMAIN pairs : pairs[i].value.s # 0}
       IN /\ \A i \in DOMAIN pairs :
               /\ pairs[i].key.a \in StrBlocks(heap)
               /\ pairs[i].key \notin CallerKeys
          /\ \A i \in strv :
               /\ pairs[i].value.a \in StrBlocks(heap)
               /\ pairs[i].value \notin StrVals
          /\ Cardinality(StoredBlocks(mhash.hash))
               = Len(pairs) + Cardinality(strv)

\* two entries with string values after a value was replaced, an entry was
\* deleted and the table was resized
C26_Witness ==
  /\ res.op = "mreplacestr" /\ res.ret = MHASH_OK
  /\ ndel = 1 /\ NEntries(mhash.hash) = 2
  /\ mhash.hash.table_size > 1
  /\ \A e \in Entries(mhash.hash) : e.value.s # 0

\* C27: in every reachable state of a GrowableTable the recorded pool_size
\* is the pool capacity of the inner table, its entries plus its free nodes,
\* after mhash_init and after every resize.
C27_RecordedCapacity ==
  ready => mhash.pool_size = Capacity(mhash.hash)

\* the key-to-value mapping of table H as a caller reads it: the answer of
\* hashtable_get for every key string
Mapping(H) == [k \in CallerKeys |-> Lookup(H, k)]

\* C28: a call of mhash_setptr, mhash_setstr, mhash_replaceptr or
\* mhash_replacestr that returns a code other than MHASH_OK leaves the
\* key-to-value mapping of the table as it was before the call: the same
\* entries, every lookup answering as before, also when the call resized the
\* table before it failed.
C28_FailedInsertKeepsMapping ==
  [][(res'.op \in InsertOps /\ res'.ret # MHASH_OK)
       => /\ Mapping(mhash'.hash) = Mapping(mhash.hash)
          /\ Entries(mhash'.hash) = Entries(mhash.hash)]_vars

\* a replace of an absent key that resized the full table and was refused
\* by the second hashtable_set
C28_Witness ==
  /\ res.op = "mreplaceptr" /\ res.ret = HASHTABLE_FULL
  /\ res.n = 1 /\ res.key.s \notin Present(amap)
  /\ NEntries(mhash.hash) >= 1

\* C29: on a table whose free list is empty the key is looked up before the
\* capacity is tested: hashtable_set of a present key returns HASHTABLE_DUPL,
\* hashtable_getset of a present key returns HASHTABLE_OK, gives the previous
\* value and stores the new one; mhash_setptr of a present key returns
\* MHASH_DUPL and mhash_replaceptr of a present key returns MHASH_OK with the
\* new value stored, both without a resize: the recorded pool_size, the bin
\* array and the pool array are those of before the call.
C29_KeyBeforeCapacity ==
  [][(res'.op \in {"msetptr", "mreplaceptr"} /\ res'.flag /\ res'.key # NULL
        /\ mhash.hash.pool = 0
        /\ Lookup(mhash.hash, res'.key).ret = HASHTABLE_OK)
       => /\ \A v \in Vals :
               LET s == hashtable_set(mhash.hash, TRUE, res'.key, v)
                   g == hashtable_getset(mhash.hash, TRUE, res'.key, v,
                                         TRUE, Stale)
               IN /\ s.ret = HASHTABLE_DUPL /\ s.h = mhash.hash
                  /\ g.ret = HASHTABLE_OK
                  /\ g.out = Lookup(mhash.hash, res'.key).val
                  /\ Lookup(g.h, res'.key) = [ret |-> HASHTABLE_OK, val |-> v]
          /\ (res'.op = "msetptr" /\ res'.oom = 0)
               => res'.ret = MHASH_DUPL
          /\ res'.op = "mreplaceptr"
               => /\ res'.ret = MHASH_OK
                  /\ Lookup(mhash'.hash, res'.key)
                       = [ret |-> HASHTABLE_OK, val |-> res'.value]
                  /\ heap' = heap
          /\ res'.n = 0
          /\ mhash'.pool_size = mhash.pool_size
          /\ mhash'.table_ptr = mhash.table_ptr
          /\ mhash'.pool_base = mhash.pool_base
          /\ mhash'.hash.pool = 0
          /\ NEntries(mhash'.hash) = NEntries(mhash.hash)]_vars

\* a replace that gave a present key of a full table of two entries another
\* value
C29_Witness ==
  /\ res.op = "mreplaceptr" /\ res.ret = MHASH_OK
  /\ res.val \in Vals /\ res.val # res.value
  /\ mhash.hash.pool = 0 /\ res.n = 0
  /\ NEntries(mhash.hash) = 2

\* C30: a lookup that returns a code other than MHASH_OK has not written to
\* its output parameter: after hashtable_get through mhash_getptr, after
\* mhash_getint and after mhash_getstr the caller's *val holds what it held
\* before the call.
C30_FailedLookupKeepsVal ==
  [][(res'.op \in {"mgetptr", "mgetint", "mgetstr"} /\ res'.ret # MHASH_OK)
       => res'.val = (IF res'.op = "mgetint" THEN res'.value ELSE Stale)]_vars

\* C31: on a full table with increment >= 1 and no malloc failing, a caller
\* whose mhash_setptr of a new key was refused and who keeps calling it with
\* the same key eventually gets MHASH_OK for that key; from no reachable
\* state do all further retries fail.
C31_RetryEventuallyAccepted ==
  \A k \in MKeyArgs \ {NULL} :
    (Refused(res) /\ res.key = k)
      ~> (res.op = "msetptr" /\ res.key = k /\ res.ret = MHASH_OK)

\* a retry that was accepted after its resize enlarged the bin array, at
\* least one earlier call having been refused after a resize of its own
C31_Witness ==
  /\ res.op = "msetptr" /\ res.ret = MHASH_OK /\ res.n = 1
  /\ mhash.pool_size >= given + 2 * mhash.pool_increment
  /\ mhash.hash.table_size > 2
  /\ mhash.hash.pool_size > 0

\* C32: with ints of IntBits bits that wrap around, the doubling loops of
\* mhash_init and mhash_resize end for every pool_size in 1..IntMax, and
\* leave table_size a positive power of two that is at least pool_size.
C32_DoublingLoops ==
  /\ [](loop.pc = "run" => <>(loop.pc = "done"))
  /\ [](loop.pc = "done"
          => /\ loop.table_size > 0
             /\ IsPowerOfTwo(loop.table_size)
             /\ loop.table_size >= loop.pool_size)

====
